---- MODULE Spec2Model ----
(***************************************************************************)
(* The extern "C" boundary layer of the line_descriptor and ximgproc       *)
(* bindings: every entry point forwards to one native operation inside a   *)
(* try { ... } OCVRS_CATCH region and returns a Result envelope; the       *)
(* cv_*_delete entry points run `delete instance` and return nothing.      *)
(*                                                                         *)
(* The model is a caller driving the layer: a heap of native allocations   *)
(* (raw objects made by `new T`, cv::Ptr<T> boxes made by                   *)
(* `new cv::Ptr<T>(ret)`, the reference-counted objects behind them, and   *)
(* cv::Mat headers made by `new cv::Mat(ret)`), the property values of the *)
(* objects, and the envelope the last call returned.  The native library   *)
(* is opaque: each native operation either returns or throws, chosen       *)
(* nondeterministically.                                                   *)
(***************************************************************************)
EXTENDS Integers, Sequences, FiniteSets, TLC

(* Bounds of the model. *)
MaxAddr == 4
MaxVal == 1
MaxCalls == 2
MaxObjectCalls == 3
MaxThreads == 2
MaxSharedCalls == 4
MaxSharedArgs == 1
MaxPairCalls == 4

Addr == 1..MaxAddr
NULL == 0
Vals == (-1)..MaxVal

(* One entry point of the layer, as its source text determines it:         *)
(*   guarded : the body is try { ... } OCVRS_CATCH(...)                     *)
(*   ret     : "none" (void), "void" (Result_void), "value" (Result<T>),   *)
(*             "handle" (Result<T*>)                                       *)
(*   wrap    : how a returned handle is made: "raw" (the pointer `new T`   *)
(*             gave), "Ptr" (new cv::Ptr<T>(ret)), "Mat" (new cv::Mat(ret))*)
(*   rtype   : the type of the object behind a returned handle             *)
(*   inst    : the type of `instance`, "" for a free function              *)
(*   act     : the statement that does the work: "new", "delete", "call",  *)
(*             "getfield" (ret = instance->f), "setfield" (instance->f = v)*)
(*   callee  : the native function, constructor or field it names          *)
(*   encoded : the native name the entry point's own name encodes          *)
(*   params  : the parameters after `instance`, in declaration order       *)
(*   fwd     : the arguments of the native call, in the order written      *)
(*   hargs   : the parameters that are handles of this layer               *)
(*   atype   : the type a delete entry point accepts                       *)
(*   prop    : the field, or the X of a getX/setX pair of one class        *)
EP(name, guarded, ret, wrap, rtype, inst, act, callee, encoded, params, fwd, hargs, atype, prop) ==
  [name |-> name, guarded |-> guarded, ret |-> ret, wrap |-> wrap, rtype |-> rtype,
   inst |-> inst, act |-> act, callee |-> callee, encoded |-> encoded,
   params |-> params, fwd |-> fwd, hargs |-> hargs, atype |-> atype, prop |-> prop]

(* The entry points of src/unnamed/part_000, one record per extern "C" function, in source order. *)
LineDescriptorEntryPoints ==
  {
    EP("cv_line_descriptor_drawKeylines_const_MatR_const_vector_KeyLine_R_MatR_const_ScalarR_int", TRUE, "void", "", "", "", "call", "drawKeylines", "drawKeylines", <<"image", "keylines", "outImage", "color", "flags">>, <<"image", "keylines", "outImage", "color", "flags">>, <<>>, "", ""),
    EP("cv_line_descriptor_drawLineMatches_const_MatR_const_vector_KeyLine_R_const_MatR_const_vector_KeyLine_R_const_vector_DMatch_R_MatR_const_ScalarR_const_ScalarR_const_vector_char_R_int", TRUE, "void", "", "", "", "call", "drawLineMatches", "drawLineMatches", <<"img1", "keylines1", "img2", "keylines2", "matches1to2", "outImg", "matchColor", "singleLineColor", "matchesMask", "flags">>, <<"img1", "keylines1", "img2", "keylines2", "matches1to2", "outImg", "matchColor", "singleLineColor", "matchesMask", "flags">>, <<>>, "", ""),
    EP("cv_BinaryDescriptor_delete", FALSE, "none", "", "", "", "delete", "delete", "delete", <<>>, <<>>, <<>>, "BinaryDescriptor", ""),
    EP("cv_line_descriptor_BinaryDescriptor_BinaryDescriptor_const_ParamsR", TRUE, "handle", "raw", "BinaryDescriptor", "", "new", "BinaryDescriptor", "BinaryDescriptor", <<"parameters">>, <<"parameters">>, <<<<"raw", "BinaryDescriptor::Params">>>>, "", ""),
    EP("cv_line_descriptor_BinaryDescriptor_createBinaryDescriptor", TRUE, "handle", "Ptr", "BinaryDescriptor", "", "call", "createBinaryDescriptor", "createBinaryDescriptor", <<>>, <<>>, <<>>, "", ""),
    EP("cv_line_descriptor_BinaryDescriptor_createBinaryDescriptor_Params", TRUE, "handle", "Ptr", "BinaryDescriptor", "", "call", "createBinaryDescriptor", "createBinaryDescriptor", <<"parameters">>, <<"parameters">>, <<<<"raw", "BinaryDescriptor::Params">>>>, "", ""),
    EP("cv_line_descriptor_BinaryDescriptor_getNumOfOctaves", TRUE, "value", "", "", "BinaryDescriptor", "call", "getNumOfOctaves", "getNumOfOctaves", <<>>, <<>>, <<>>, "", "NumOfOctaves"),
    EP("cv_line_descriptor_BinaryDescriptor_setNumOfOctaves_int", TRUE, "void", "", "", "BinaryDescriptor", "call", "setNumOfOctaves", "setNumOfOctaves", <<"octaves">>, <<"octaves">>, <<>>, "", "NumOfOctaves"),
    EP("cv_line_descriptor_BinaryDescriptor_getWidthOfBand", TRUE, "value", "", "", "BinaryDescriptor", "call", "getWidthOfBand", "getWidthOfBand", <<>>, <<>>, <<>>, "", "WidthOfBand"),
    EP("cv_line_descriptor_BinaryDescriptor_setWidthOfBand_int", TRUE, "void", "", "", "BinaryDescriptor", "call", "setWidthOfBand", "setWidthOfBand", <<"width">>, <<"width">>, <<>>, "", "WidthOfBand"),
    EP("cv_line_descriptor_BinaryDescriptor_getReductionRatio", TRUE, "value", "", "", "BinaryDescriptor", "call", "getReductionRatio", "getReductionRatio", <<>>, <<>>, <<>>, "", "ReductionRatio"),
    EP("cv_line_descriptor_BinaryDescriptor_setReductionRatio_int", TRUE, "void", "", "", "BinaryDescriptor", "call", "setReductionRatio", "setReductionRatio", <<"rRatio">>, <<"rRatio">>, <<>>, "", "ReductionRatio"),
    EP("cv_line_descriptor_BinaryDescriptor_read_const_FileNodeR", TRUE, "void", "", "", "BinaryDescriptor", "call", "read", "read", <<"fn">>, <<"fn">>, <<>>, "", ""),
    EP("cv_line_descriptor_BinaryDescriptor_write_const_FileStorageR", TRUE, "void", "", "", "BinaryDescriptor", "call", "write", "write", <<"fs">>, <<"fs">>, <<>>, "", ""),
    EP("cv_line_descriptor_BinaryDescriptor_detect_const_MatR_vector_KeyLine_R_const_MatR", TRUE, "void", "", "", "BinaryDescriptor", "call", "detect", "detect", <<"image", "keypoints", "mask">>, <<"image", "keypoints", "mask">>, <<>>, "", ""),
    EP("cv_line_descriptor_BinaryDescriptor_detect_const_const_vector_Mat_R_vector_vector_KeyLine__R_const_vector_Mat_R", TRUE, "void", "", "", "BinaryDescriptor", "call", "detect", "detect", <<"images", "keylines", "masks">>, <<"images", "keylines", "masks">>, <<>>, "", ""),
    EP("cv_line_descriptor_BinaryDescriptor_compute_const_const_MatR_vector_KeyLine_R_MatR_bool", TRUE, "void", "", "", "BinaryDescriptor", "call", "compute", "compute", <<"image", "keylines", "descriptors", "returnFloatDescr">>, <<"image", "keylines", "descriptors", "returnFloatDescr">>, <<>>, "", ""),
    EP("cv_line_descriptor_BinaryDescriptor_compute_const_const_vector_Mat_R_vector_vector_KeyLine__R_vector_Mat_R_bool", TRUE, "void", "", "", "BinaryDescriptor", "call", "compute", "compute", <<"images", "keylines", "descriptors", "returnFloatDescr">>, <<"images", "keylines", "descriptors", "returnFloatDescr">>, <<>>, "", ""),
    EP("cv_line_descriptor_BinaryDescriptor_descriptorSize_const", TRUE, "value", "", "", "BinaryDescriptor", "call", "descriptorSize", "descriptorSize", <<>>, <<>>, <<>>, "", ""),
    EP("cv_line_descriptor_BinaryDescriptor_descriptorType_const", TRUE, "value", "", "", "BinaryDescriptor", "call", "descriptorType", "descriptorType", <<>>, <<>>, <<>>, "", ""),
    EP("cv_line_descriptor_BinaryDescriptor_defaultNorm_const", TRUE, "value", "", "", "BinaryDescriptor", "call", "defaultNorm", "defaultNorm", <<>>, <<>>, <<>>, "", ""),
    EP("cv_line_descriptor_BinaryDescriptor_Params_getPropNumOfOctave__const", TRUE, "value", "", "", "BinaryDescriptor::Params", "getfield", "numOfOctave_", "numOfOctave_", <<>>, <<>>, <<>>, "", "numOfOctave_"),
    EP("cv_line_descriptor_BinaryDescriptor_Params_setPropNumOfOctave__int", TRUE, "void", "", "", "BinaryDescriptor::Params", "setfield", "numOfOctave_", "numOfOctave_", <<"val">>, <<"val">>, <<>>, "", "numOfOctave_"),
    EP("cv_line_descriptor_BinaryDescriptor_Params_getPropWidthOfBand__const", TRUE, "value", "", "", "BinaryDescriptor::Params", "getfield", "widthOfBand_", "widthOfBand_", <<>>, <<>>, <<>>, "", "widthOfBand_"),
    EP("cv_line_descriptor_BinaryDescriptor_Params_setPropWidthOfBand__int", TRUE, "void", "", "", "BinaryDescriptor::Params", "setfield", "widthOfBand_", "widthOfBand_", <<"val">>, <<"val">>, <<>>, "", "widthOfBand_"),
    EP("cv_line_descriptor_BinaryDescriptor_Params_getPropReductionRatio_const", TRUE, "value", "", "", "BinaryDescriptor::Params", "getfield", "reductionRatio", "reductionRatio", <<>>, <<>>, <<>>, "", "reductionRatio"),
    EP("cv_line_descriptor_BinaryDescriptor_Params_setPropReductionRatio_int", TRUE, "void", "", "", "BinaryDescriptor::Params", "setfield", "reductionRatio", "reductionRatio", <<"val">>, <<"val">>, <<>>, "", "reductionRatio"),
    EP("cv_line_descriptor_BinaryDescriptor_Params_getPropKsize__const", TRUE, "value", "", "", "BinaryDescriptor::Params", "getfield", "ksize_", "ksize_", <<>>, <<>>, <<>>, "", "ksize_"),
    EP("cv_line_descriptor_BinaryDescriptor_Params_setPropKsize__int", TRUE, "void", "", "", "BinaryDescriptor::Params", "setfield", "ksize_", "ksize_", <<"val">>, <<"val">>, <<>>, "", "ksize_"),
    EP("cv_BinaryDescriptor_Params_delete", FALSE, "none", "", "", "", "delete", "delete", "delete", <<>>, <<>>, <<>>, "BinaryDescriptor::Params", ""),
    EP("cv_line_descriptor_BinaryDescriptor_Params_Params", TRUE, "handle", "raw", "BinaryDescriptor::Params", "", "new", "Params", "Params", <<>>, <<>>, <<>>, "", ""),
    EP("cv_line_descriptor_BinaryDescriptor_Params_read_const_FileNodeR", TRUE, "void", "", "", "BinaryDescriptor::Params", "call", "read", "read", <<"fn">>, <<"fn">>, <<>>, "", ""),
    EP("cv_line_descriptor_BinaryDescriptor_Params_write_const_FileStorageR", TRUE, "void", "", "", "BinaryDescriptor::Params", "call", "write", "write", <<"fs">>, <<"fs">>, <<>>, "", ""),
    EP("cv_BinaryDescriptorMatcher_delete", FALSE, "none", "", "", "", "delete", "delete", "delete", <<>>, <<>>, <<>>, "BinaryDescriptorMatcher", ""),
    EP("cv_line_descriptor_BinaryDescriptorMatcher_match_const_const_MatR_const_MatR_vector_DMatch_R_const_MatR", TRUE, "void", "", "", "BinaryDescriptorMatcher", "call", "match", "match", <<"queryDescriptors", "trainDescriptors", "matches", "mask">>, <<"queryDescriptors", "trainDescriptors", "matches", "mask">>, <<>>, "", ""),
    EP("cv_line_descriptor_BinaryDescriptorMatcher_match_const_MatR_vector_DMatch_R_const_vector_Mat_R", TRUE, "void", "", "", "BinaryDescriptorMatcher", "call", "match", "match", <<"queryDescriptors", "matches", "masks">>, <<"queryDescriptors", "matches", "masks">>, <<>>, "", ""),
    EP("cv_line_descriptor_BinaryDescriptorMatcher_knnMatch_const_const_MatR_const_MatR_vector_vector_DMatch__R_int_const_MatR_bool", TRUE, "void", "", "", "BinaryDescriptorMatcher", "call", "knnMatch", "knnMatch", <<"queryDescriptors", "trainDescriptors", "matches", "k", "mask", "compactResult">>, <<"queryDescriptors", "trainDescriptors", "matches", "k", "mask", "compactResult">>, <<>>, "", ""),
    EP("cv_line_descriptor_BinaryDescriptorMatcher_knnMatch_const_MatR_vector_vector_DMatch__R_int_const_vector_Mat_R_bool", TRUE, "void", "", "", "BinaryDescriptorMatcher", "call", "knnMatch", "knnMatch", <<"queryDescriptors", "matches", "k", "masks", "compactResult">>, <<"queryDescriptors", "matches", "k", "masks", "compactResult">>, <<>>, "", ""),
    EP("cv_line_descriptor_BinaryDescriptorMatcher_radiusMatch_const_const_MatR_const_MatR_vector_vector_DMatch__R_float_const_MatR_bool", TRUE, "void", "", "", "BinaryDescriptorMatcher", "call", "radiusMatch", "radiusMatch", <<"queryDescriptors", "trainDescriptors", "matches", "maxDistance", "mask", "compactResult">>, <<"queryDescriptors", "trainDescriptors", "matches", "maxDistance", "mask", "compactResult">>, <<>>, "", ""),
    EP("cv_line_descriptor_BinaryDescriptorMatcher_radiusMatch_const_MatR_vector_vector_DMatch__R_float_const_vector_Mat_R_bool", TRUE, "void", "", "", "BinaryDescriptorMatcher", "call", "radiusMatch", "radiusMatch", <<"queryDescriptors", "matches", "maxDistance", "masks", "compactResult">>, <<"queryDescriptors", "matches", "maxDistance", "masks", "compactResult">>, <<>>, "", ""),
    EP("cv_line_descriptor_BinaryDescriptorMatcher_add_const_vector_Mat_R", TRUE, "void", "", "", "BinaryDescriptorMatcher", "call", "add", "add", <<"descriptors">>, <<"descriptors">>, <<>>, "", ""),
    EP("cv_line_descriptor_BinaryDescriptorMatcher_train", TRUE, "void", "", "", "BinaryDescriptorMatcher", "call", "train", "train", <<>>, <<>>, <<>>, "", ""),
    EP("cv_line_descriptor_BinaryDescriptorMatcher_createBinaryDescriptorMatcher", TRUE, "handle", "Ptr", "BinaryDescriptorMatcher", "", "call", "createBinaryDescriptorMatcher", "createBinaryDescriptorMatcher", <<>>, <<>>, <<>>, "", ""),
    EP("cv_line_descriptor_BinaryDescriptorMatcher_clear", TRUE, "void", "", "", "BinaryDescriptorMatcher", "call", "clear", "clear", <<>>, <<>>, <<>>, "", ""),
    EP("cv_line_descriptor_BinaryDescriptorMatcher_BinaryDescriptorMatcher", TRUE, "handle", "raw", "BinaryDescriptorMatcher", "", "new", "BinaryDescriptorMatcher", "BinaryDescriptorMatcher", <<>>, <<>>, <<>>, "", ""),
    EP("cv_DrawLinesMatchesFlags_delete", FALSE, "none", "", "", "", "delete", "delete", "delete", <<>>, <<>>, <<>>, "DrawLinesMatchesFlags", ""),
    EP("cv_line_descriptor_KeyLine_getPropAngle_const", TRUE, "value", "", "", "KeyLine", "getfield", "angle", "angle", <<>>, <<>>, <<>>, "", "angle"),
    EP("cv_line_descriptor_KeyLine_setPropAngle_float", TRUE, "void", "", "", "KeyLine", "setfield", "angle", "angle", <<"val">>, <<"val">>, <<>>, "", "angle"),
    EP("cv_line_descriptor_KeyLine_getPropClass_id_const", TRUE, "value", "", "", "KeyLine", "getfield", "class_id", "class_id", <<>>, <<>>, <<>>, "", "class_id"),
    EP("cv_line_descriptor_KeyLine_setPropClass_id_int", TRUE, "void", "", "", "KeyLine", "setfield", "class_id", "class_id", <<"val">>, <<"val">>, <<>>, "", "class_id"),
    EP("cv_line_descriptor_KeyLine_getPropOctave_const", TRUE, "value", "", "", "KeyLine", "getfield", "octave", "octave", <<>>, <<>>, <<>>, "", "octave"),
    EP("cv_line_descriptor_KeyLine_setPropOctave_int", TRUE, "void", "", "", "KeyLine", "setfield", "octave", "octave", <<"val">>, <<"val">>, <<>>, "", "octave"),
    EP("cv_line_descriptor_KeyLine_getPropPt_const", TRUE, "value", "", "", "KeyLine", "getfield", "pt", "pt", <<>>, <<>>, <<>>, "", "pt"),
    EP("cv_line_descriptor_KeyLine_setPropPt_Point2f", TRUE, "void", "", "", "KeyLine", "setfield", "pt", "pt", <<"val">>, <<"val">>, <<>>, "", "pt"),
    EP("cv_line_descriptor_KeyLine_getPropResponse_const", TRUE, "value", "", "", "KeyLine", "getfield", "response", "response", <<>>, <<>>, <<>>, "", "response"),
    EP("cv_line_descriptor_KeyLine_setPropResponse_float", TRUE, "void", "", "", "KeyLine", "setfield", "response", "response", <<"val">>, <<"val">>, <<>>, "", "response"),
    EP("cv_line_descriptor_KeyLine_getPropSize_const", TRUE, "value", "", "", "KeyLine", "getfield", "size", "size", <<>>, <<>>, <<>>, "", "size"),
    EP("cv_line_descriptor_KeyLine_setPropSize_float", TRUE, "void", "", "", "KeyLine", "setfield", "size", "size", <<"val">>, <<"val">>, <<>>, "", "size"),
    EP("cv_line_descriptor_KeyLine_getPropStartPointX_const", TRUE, "value", "", "", "KeyLine", "getfield", "startPointX", "startPointX", <<>>, <<>>, <<>>, "", "startPointX"),
    EP("cv_line_descriptor_KeyLine_setPropStartPointX_float", TRUE, "void", "", "", "KeyLine", "setfield", "startPointX", "startPointX", <<"val">>, <<"val">>, <<>>, "", "startPointX"),
    EP("cv_line_descriptor_KeyLine_getPropStartPointY_const", TRUE, "value", "", "", "KeyLine", "getfield", "startPointY", "startPointY", <<>>, <<>>, <<>>, "", "startPointY"),
    EP("cv_line_descriptor_KeyLine_setPropStartPointY_float", TRUE, "void", "", "", "KeyLine", "setfield", "startPointY", "startPointY", <<"val">>, <<"val">>, <<>>, "", "startPointY"),
    EP("cv_line_descriptor_KeyLine_getPropEndPointX_const", TRUE, "value", "", "", "KeyLine", "getfield", "endPointX", "endPointX", <<>>, <<>>, <<>>, "", "endPointX"),
    EP("cv_line_descriptor_KeyLine_setPropEndPointX_float", TRUE, "void", "", "", "KeyLine", "setfield", "endPointX", "endPointX", <<"val">>, <<"val">>, <<>>, "", "endPointX"),
    EP("cv_line_descriptor_KeyLine_getPropEndPointY_const", TRUE, "value", "", "", "KeyLine", "getfield", "endPointY", "endPointY", <<>>, <<>>, <<>>, "", "endPointY"),
    EP("cv_line_descriptor_KeyLine_setPropEndPointY_float", TRUE, "void", "", "", "KeyLine", "setfield", "endPointY", "endPointY", <<"val">>, <<"val">>, <<>>, "", "endPointY"),
    EP("cv_line_descriptor_KeyLine_getPropSPointInOctaveX_const", TRUE, "value", "", "", "KeyLine", "getfield", "sPointInOctaveX", "sPointInOctaveX", <<>>, <<>>, <<>>, "", "sPointInOctaveX"),
    EP("cv_line_descriptor_KeyLine_setPropSPointInOctaveX_float", TRUE, "void", "", "", "KeyLine", "setfield", "sPointInOctaveX", "sPointInOctaveX", <<"val">>, <<"val">>, <<>>, "", "sPointInOctaveX"),
    EP("cv_line_descriptor_KeyLine_getPropSPointInOctaveY_const", TRUE, "value", "", "", "KeyLine", "getfield", "sPointInOctaveY", "sPointInOctaveY", <<>>, <<>>, <<>>, "", "sPointInOctaveY"),
    EP("cv_line_descriptor_KeyLine_setPropSPointInOctaveY_float", TRUE, "void", "", "", "KeyLine", "setfield", "sPointInOctaveY", "sPointInOctaveY", <<"val">>, <<"val">>, <<>>, "", "sPointInOctaveY"),
    EP("cv_line_descriptor_KeyLine_getPropEPointInOctaveX_const", TRUE, "value", "", "", "KeyLine", "getfield", "ePointInOctaveX", "ePointInOctaveX", <<>>, <<>>, <<>>, "", "ePointInOctaveX"),
    EP("cv_line_descriptor_KeyLine_setPropEPointInOctaveX_float", TRUE, "void", "", "", "KeyLine", "setfield", "ePointInOctaveX", "ePointInOctaveX", <<"val">>, <<"val">>, <<>>, "", "ePointInOctaveX"),
    EP("cv_line_descriptor_KeyLine_getPropEPointInOctaveY_const", TRUE, "value", "", "", "KeyLine", "getfield", "ePointInOctaveY", "ePointInOctaveY", <<>>, <<>>, <<>>, "", "ePointInOctaveY"),
    EP("cv_line_descriptor_KeyLine_setPropEPointInOctaveY_float", TRUE, "void", "", "", "KeyLine", "setfield", "ePointInOctaveY", "ePointInOctaveY", <<"val">>, <<"val">>, <<>>, "", "ePointInOctaveY"),
    EP("cv_line_descriptor_KeyLine_getPropLineLength_const", TRUE, "value", "", "", "KeyLine", "getfield", "lineLength", "lineLength", <<>>, <<>>, <<>>, "", "lineLength"),
    EP("cv_line_descriptor_KeyLine_setPropLineLength_float", TRUE, "void", "", "", "KeyLine", "setfield", "lineLength", "lineLength", <<"val">>, <<"val">>, <<>>, "", "lineLength"),
    EP("cv_line_descriptor_KeyLine_getPropNumOfPixels_const", TRUE, "value", "", "", "KeyLine", "getfield", "numOfPixels", "numOfPixels", <<>>, <<>>, <<>>, "", "numOfPixels"),
    EP("cv_line_descriptor_KeyLine_setPropNumOfPixels_int", TRUE, "void", "", "", "KeyLine", "setfield", "numOfPixels", "numOfPixels", <<"val">>, <<"val">>, <<>>, "", "numOfPixels"),
    EP("cv_KeyLine_delete", FALSE, "none", "", "", "", "delete", "delete", "delete", <<>>, <<>>, <<>>, "KeyLine", ""),
    EP("cv_line_descriptor_KeyLine_getStartPoint_const", TRUE, "value", "", "", "KeyLine", "call", "getStartPoint", "getStartPoint", <<>>, <<>>, <<>>, "", ""),
    EP("cv_line_descriptor_KeyLine_getEndPoint_const", TRUE, "value", "", "", "KeyLine", "call", "getEndPoint", "getEndPoint", <<>>, <<>>, <<>>, "", ""),
    EP("cv_line_descriptor_KeyLine_getStartPointInOctave_const", TRUE, "value", "", "", "KeyLine", "call", "getStartPointInOctave", "getStartPointInOctave", <<>>, <<>>, <<>>, "", ""),
    EP("cv_line_descriptor_KeyLine_getEndPointInOctave_const", TRUE, "value", "", "", "KeyLine", "call", "getEndPointInOctave", "getEndPointInOctave", <<>>, <<>>, <<>>, "", ""),
    EP("cv_line_descriptor_KeyLine_KeyLine", TRUE, "handle", "raw", "KeyLine", "", "new", "KeyLine", "KeyLine", <<>>, <<>>, <<>>, "", ""),
    EP("cv_LSDDetector_delete", FALSE, "none", "", "", "", "delete", "delete", "delete", <<>>, <<>>, <<>>, "LSDDetector", ""),
    EP("cv_line_descriptor_LSDDetector_LSDDetector", TRUE, "handle", "raw", "LSDDetector", "", "new", "LSDDetector", "LSDDetector", <<>>, <<>>, <<>>, "", ""),
    EP("cv_line_descriptor_LSDDetector_createLSDDetector", TRUE, "handle", "Ptr", "LSDDetector", "", "call", "createLSDDetector", "createLSDDetector", <<>>, <<>>, <<>>, "", ""),
    EP("cv_line_descriptor_LSDDetector_detect_const_MatR_vector_KeyLine_R_int_int_const_MatR", TRUE, "void", "", "", "LSDDetector", "call", "detect", "detect", <<"image", "keypoints", "scale", "numOctaves", "mask">>, <<"image", "keypoints", "scale", "numOctaves", "mask">>, <<>>, "", ""),
    EP("cv_line_descriptor_LSDDetector_detect_const_const_vector_Mat_R_vector_vector_KeyLine__R_int_int_const_vector_Mat_R", TRUE, "void", "", "", "LSDDetector", "call", "detect", "detect", <<"images", "keylines", "scale", "numOctaves", "masks">>, <<"images", "keylines", "scale", "numOctaves", "masks">>, <<>>, "", "")
  }

(* The entry points of src/bindings/cpp/opencv_32/ximgproc.cpp, one record per extern "C" function, in source order. *)
XimgprocEntryPoints ==
  {
    EP("cv_ximgproc_FastHoughTransform_const__InputArrayR_const__OutputArrayR_int_int_int_int", TRUE, "void", "", "", "", "call", "FastHoughTransform", "FastHoughTransform", <<"src", "dst", "dstMatDepth", "angleRange", "op", "makeSkew">>, <<"src", "dst", "dstMatDepth", "angleRange", "op", "makeSkew">>, <<>>, "", ""),
    EP("cv_ximgproc_GradientDericheX_const__InputArrayR_const__OutputArrayR_double_double", TRUE, "void", "", "", "", "call", "GradientDericheX", "GradientDericheX", <<"_op", "_dst", "alphaDerive", "alphaMean">>, <<"_op", "_dst", "alphaDerive", "alphaMean">>, <<>>, "", ""),
    EP("cv_ximgproc_GradientDericheY_const__InputArrayR_const__OutputArrayR_double_double", TRUE, "void", "", "", "", "call", "GradientDericheY", "GradientDericheY", <<"_op", "_dst", "alphaDerive", "alphaMean">>, <<"_op", "_dst", "alphaDerive", "alphaMean">>, <<>>, "", ""),
    EP("cv_ximgproc_GradientPaillouX_const__InputArrayR_const__OutputArrayR_double_double", TRUE, "void", "", "", "", "call", "GradientPaillouX", "GradientPaillouX", <<"op", "_dst", "alpha", "omega">>, <<"op", "_dst", "alpha", "omega">>, <<>>, "", ""),
    EP("cv_ximgproc_GradientPaillouY_const__InputArrayR_const__OutputArrayR_double_double", TRUE, "void", "", "", "", "call", "GradientPaillouY", "GradientPaillouY", <<"op", "_dst", "alpha", "omega">>, <<"op", "_dst", "alpha", "omega">>, <<>>, "", ""),
    EP("cv_ximgproc_HoughPoint2Line_const_PointR_const__InputArrayR_int_int_int", TRUE, "value", "", "", "", "call", "HoughPoint2Line", "HoughPoint2Line", <<"houghPoint", "srcImgInfo", "angleRange", "makeSkew", "rules">>, <<"houghPoint", "srcImgInfo", "angleRange", "makeSkew", "rules">>, <<>>, "", ""),
    EP("cv_ximgproc_amFilter_const__InputArrayR_const__InputArrayR_const__OutputArrayR_double_double_bool", TRUE, "void", "", "", "", "call", "amFilter", "amFilter", <<"joint", "src", "dst", "sigma_s", "sigma_r", "adjust_outliers">>, <<"joint", "src", "dst", "sigma_s", "sigma_r", "adjust_outliers">>, <<>>, "", ""),
    EP("cv_ximgproc_bilateralTextureFilter_const__InputArrayR_const__OutputArrayR_int_int_double_double", TRUE, "void", "", "", "", "call", "bilateralTextureFilter", "bilateralTextureFilter", <<"src", "dst", "fr", "numIter", "sigmaAlpha", "sigmaAvg">>, <<"src", "dst", "fr", "numIter", "sigmaAlpha", "sigmaAvg">>, <<>>, "", ""),
    EP("cv_ximgproc_computeBadPixelPercent_const__InputArrayR_const__InputArrayR_Rect_int", TRUE, "value", "", "", "", "call", "computeBadPixelPercent", "computeBadPixelPercent", <<"GT", "src", "ROI", "thresh">>, <<"GT", "src", "ROI", "thresh">>, <<>>, "", ""),
    EP("cv_ximgproc_computeMSE_const__InputArrayR_const__InputArrayR_Rect", TRUE, "value", "", "", "", "call", "computeMSE", "computeMSE", <<"GT", "src", "ROI">>, <<"GT", "src", "ROI">>, <<>>, "", ""),
    EP("cv_ximgproc_covarianceEstimation_const__InputArrayR_const__OutputArrayR_int_int", TRUE, "void", "", "", "", "call", "covarianceEstimation", "covarianceEstimation", <<"src", "dst", "windowRows", "windowCols">>, <<"src", "dst", "windowRows", "windowCols">>, <<>>, "", ""),
    EP("cv_ximgproc_createAMFilter_double_double_bool", TRUE, "handle", "Ptr", "AdaptiveManifoldFilter", "", "call", "createAMFilter", "createAMFilter", <<"sigma_s", "sigma_r", "adjust_outliers">>, <<"sigma_s", "sigma_r", "adjust_outliers">>, <<>>, "", ""),
    EP("cv_ximgproc_createDTFilter_const__InputArrayR_double_double_int_int", TRUE, "handle", "Ptr", "DTFilter", "", "call", "createDTFilter", "createDTFilter", <<"guide", "sigmaSpatial", "sigmaColor", "mode", "numIters">>, <<"guide", "sigmaSpatial", "sigmaColor", "mode", "numIters">>, <<>>, "", ""),
    EP("cv_ximgproc_createDisparityWLSFilterGeneric_bool", TRUE, "handle", "Ptr", "DisparityWLSFilter", "", "call", "createDisparityWLSFilterGeneric", "createDisparityWLSFilterGeneric", <<"use_confidence">>, <<"use_confidence">>, <<>>, "", ""),
    EP("cv_ximgproc_createDisparityWLSFilter_Ptr_StereoMatcher_", TRUE, "handle", "Ptr", "DisparityWLSFilter", "", "call", "createDisparityWLSFilter", "createDisparityWLSFilter", <<"matcher_left">>, <<"matcher_left">>, <<<<"ptr", "StereoMatcher">>>>, "", ""),
    EP("cv_ximgproc_createEdgeAwareInterpolator", TRUE, "handle", "Ptr", "EdgeAwareInterpolator", "", "call", "createEdgeAwareInterpolator", "createEdgeAwareInterpolator", <<>>, <<>>, <<>>, "", ""),
    EP("cv_ximgproc_createFastGlobalSmootherFilter_const__InputArrayR_double_double_double_int", TRUE, "handle", "Ptr", "FastGlobalSmootherFilter", "", "call", "createFastGlobalSmootherFilter", "createFastGlobalSmootherFilter", <<"guide", "lambda", "sigma_color", "lambda_attenuation", "num_iter">>, <<"guide", "lambda", "sigma_color", "lambda_attenuation", "num_iter">>, <<>>, "", ""),
    EP("cv_ximgproc_createFastLineDetector_int_float_double_double_int_bool", TRUE, "handle", "Ptr", "FastLineDetector", "", "call", "createFastLineDetector", "createFastLineDetector", <<"_length_threshold", "_distance_threshold", "_canny_th1", "_canny_th2", "_canny_aperture_size", "_do_merge">>, <<"_length_threshold", "_distance_threshold", "_canny_th1", "_canny_th2", "_canny_aperture_size", "_do_merge">>, <<>>, "", ""),
    EP("cv_ximgproc_createGuidedFilter_const__InputArrayR_int_double", TRUE, "handle", "Ptr", "GuidedFilter", "", "call", "createGuidedFilter", "createGuidedFilter", <<"guide", "radius", "eps">>, <<"guide", "radius", "eps">>, <<>>, "", ""),
    EP("cv_ximgproc_createRFFeatureGetter", TRUE, "handle", "Ptr", "RFFeatureGetter", "", "call", "createRFFeatureGetter", "createRFFeatureGetter", <<>>, <<>>, <<>>, "", ""),
    EP("cv_ximgproc_createRightMatcher_Ptr_StereoMatcher_", TRUE, "handle", "Ptr", "StereoMatcher", "", "call", "createRightMatcher", "createRightMatcher", <<"matcher_left">>, <<"matcher_left">>, <<<<"ptr", "StereoMatcher">>>>, "", ""),
    EP("cv_ximgproc_createStructuredEdgeDetection_const_StringR_Ptr_RFFeatureGetter_", TRUE, "handle", "Ptr", "StructuredEdgeDetection", "", "call", "createStructuredEdgeDetection", "createStructuredEdgeDetection", <<"model", "howToGetFeatures">>, <<"model", "howToGetFeatures">>, <<<<"ptr", "RFFeatureGetter">>>>, "", ""),
    EP("cv_ximgproc_createSuperpixelLSC_const__InputArrayR_int_float", TRUE, "handle", "Ptr", "SuperpixelLSC", "", "call", "createSuperpixelLSC", "createSuperpixelLSC", <<"image", "region_size", "ratio">>, <<"image", "region_size", "ratio">>, <<>>, "", ""),
    EP("cv_ximgproc_createSuperpixelSEEDS_int_int_int_int_int_int_int_bool", TRUE, "handle", "Ptr", "SuperpixelSEEDS", "", "call", "createSuperpixelSEEDS", "createSuperpixelSEEDS", <<"image_width", "image_height", "image_channels", "num_superpixels", "num_levels", "prior", "histogram_bins", "double_step">>, <<"image_width", "image_height", "image_channels", "num_superpixels", "num_levels", "prior", "histogram_bins", "double_step">>, <<>>, "", ""),
    EP("cv_ximgproc_createSuperpixelSLIC_const__InputArrayR_int_int_float", TRUE, "handle", "Ptr", "SuperpixelSLIC", "", "call", "createSuperpixelSLIC", "createSuperpixelSLIC", <<"image", "algorithm", "region_size", "ruler">>, <<"image", "algorithm", "region_size", "ruler">>, <<>>, "", ""),
    EP("cv_ximgproc_dtFilter_const__InputArrayR_const__InputArrayR_const__OutputArrayR_double_double_int_int", TRUE, "void", "", "", "", "call", "dtFilter", "dtFilter", <<"guide", "src", "dst", "sigmaSpatial", "sigmaColor", "mode", "numIters">>, <<"guide", "src", "dst", "sigmaSpatial", "sigmaColor", "mode", "numIters">>, <<>>, "", ""),
    EP("cv_ximgproc_fastGlobalSmootherFilter_const__InputArrayR_const__InputArrayR_const__OutputArrayR_double_double_double_int", TRUE, "void", "", "", "", "call", "fastGlobalSmootherFilter", "fastGlobalSmootherFilter", <<"guide", "src", "dst", "lambda", "sigma_color", "lambda_attenuation", "num_iter">>, <<"guide", "src", "dst", "lambda", "sigma_color", "lambda_attenuation", "num_iter">>, <<>>, "", ""),
    EP("cv_ximgproc_getDisparityVis_const__InputArrayR_const__OutputArrayR_double", TRUE, "void", "", "", "", "call", "getDisparityVis", "getDisparityVis", <<"src", "dst", "scale">>, <<"src", "dst", "scale">>, <<>>, "", ""),
    EP("cv_ximgproc_guidedFilter_const__InputArrayR_const__InputArrayR_const__OutputArrayR_int_double_int", TRUE, "void", "", "", "", "call", "guidedFilter", "guidedFilter", <<"guide", "src", "dst", "radius", "eps", "dDepth">>, <<"guide", "src", "dst", "radius", "eps", "dDepth">>, <<>>, "", ""),
    EP("cv_ximgproc_jointBilateralFilter_const__InputArrayR_const__InputArrayR_const__OutputArrayR_int_double_double_int", TRUE, "void", "", "", "", "call", "jointBilateralFilter", "jointBilateralFilter", <<"joint", "src", "dst", "d", "sigmaColor", "sigmaSpace", "borderType">>, <<"joint", "src", "dst", "d", "sigmaColor", "sigmaSpace", "borderType">>, <<>>, "", ""),
    EP("cv_ximgproc_l0Smooth_const__InputArrayR_const__OutputArrayR_double_double", TRUE, "void", "", "", "", "call", "l0Smooth", "l0Smooth", <<"src", "dst", "lambda", "kappa">>, <<"src", "dst", "lambda", "kappa">>, <<>>, "", ""),
    EP("cv_ximgproc_niBlackThreshold_const__InputArrayR_const__OutputArrayR_double_int_int_double", TRUE, "void", "", "", "", "call", "niBlackThreshold", "niBlackThreshold", <<"_src", "_dst", "maxValue", "type", "blockSize", "delta">>, <<"_src", "_dst", "maxValue", "type", "blockSize", "delta">>, <<>>, "", ""),
    EP("cv_ximgproc_readGT_String_const__OutputArrayR", TRUE, "value", "", "", "", "call", "readGT", "readGT", <<"src_path", "dst">>, <<"src_path", "dst">>, <<>>, "", ""),
    EP("cv_ximgproc_rollingGuidanceFilter_const__InputArrayR_const__OutputArrayR_int_double_double_int_int", TRUE, "void", "", "", "", "call", "rollingGuidanceFilter", "rollingGuidanceFilter", <<"src", "dst", "d", "sigmaColor", "sigmaSpace", "numOfIter", "borderType">>, <<"src", "dst", "d", "sigmaColor", "sigmaSpace", "numOfIter", "borderType">>, <<>>, "", ""),
    EP("cv_ximgproc_segmentation_createGraphSegmentation_double_float_int", TRUE, "handle", "Ptr", "GraphSegmentation", "", "call", "createGraphSegmentation", "createGraphSegmentation", <<"sigma", "k", "min_size">>, <<"sigma", "k", "min_size">>, <<>>, "", ""),
    EP("cv_ximgproc_segmentation_createSelectiveSearchSegmentation", TRUE, "handle", "Ptr", "SelectiveSearchSegmentation", "", "call", "createSelectiveSearchSegmentation", "createSelectiveSearchSegmentation", <<>>, <<>>, <<>>, "", ""),
    EP("cv_ximgproc_segmentation_createSelectiveSearchSegmentationStrategyColor", TRUE, "handle", "Ptr", "SelectiveSearchSegmentationStrategyColor", "", "call", "createSelectiveSearchSegmentationStrategyColor", "createSelectiveSearchSegmentationStrategyColor", <<>>, <<>>, <<>>, "", ""),
    EP("cv_ximgproc_segmentation_createSelectiveSearchSegmentationStrategyFill", TRUE, "handle", "Ptr", "SelectiveSearchSegmentationStrategyFill", "", "call", "createSelectiveSearchSegmentationStrategyFill", "createSelectiveSearchSegmentationStrategyFill", <<>>, <<>>, <<>>, "", ""),
    EP("cv_ximgproc_segmentation_createSelectiveSearchSegmentationStrategyMultiple", TRUE, "handle", "Ptr", "SelectiveSearchSegmentationStrategyMultiple", "", "call", "createSelectiveSearchSegmentationStrategyMultiple", "createSelectiveSearchSegmentationStrategyMultiple", <<>>, <<>>, <<>>, "", ""),
    EP("cv_ximgproc_segmentation_createSelectiveSearchSegmentationStrategyMultiple_Ptr_SelectiveSearchSegmentationStrategy_", TRUE, "handle", "Ptr", "SelectiveSearchSegmentationStrategyMultiple", "", "call", "createSelectiveSearchSegmentationStrategyMultiple", "createSelectiveSearchSegmentationStrategyMultiple", <<"s1">>, <<"s1">>, <<<<"ptr", "SelectiveSearchSegmentationStrategy">>>>, "", ""),
    EP("cv_ximgproc_segmentation_createSelectiveSearchSegmentationStrategyMultiple_Ptr_SelectiveSearchSegmentationStrategy__Ptr_SelectiveSearchSegmentationStrategy_", TRUE, "handle", "Ptr", "SelectiveSearchSegmentationStrategyMultiple", "", "call", "createSelectiveSearchSegmentationStrategyMultiple", "createSelectiveSearchSegmentationStrategyMultiple", <<"s1", "s2">>, <<"s1", "s2">>, <<<<"ptr", "SelectiveSearchSegmentationStrategy">>, <<"ptr", "SelectiveSearchSegmentationStrategy">>>>, "", ""),
    EP("cv_ximgproc_segmentation_createSelectiveSearchSegmentationStrategyMultiple_Ptr_SelectiveSearchSegmentationStrategy__Ptr_SelectiveSearchSegmentationStrategy__Ptr_SelectiveSearchSegmentationStrategy_", TRUE, "handle", "Ptr", "SelectiveSearchSegmentationStrategyMultiple", "", "call", "createSelectiveSearchSegmentationStrategyMultiple", "createSelectiveSearchSegmentationStrategyMultiple", <<"s1", "s2", "s3">>, <<"s1", "s2", "s3">>, <<<<"ptr", "SelectiveSearchSegmentationStrategy">>, <<"ptr", "SelectiveSearchSegmentationStrategy">>, <<"ptr", "SelectiveSearchSegmentationStrategy">>>>, "", ""),
    EP("cv_ximgproc_segmentation_createSelectiveSearchSegmentationStrategyMultiple_Ptr_SelectiveSearchSegmentationStrategy__Ptr_SelectiveSearchSegmentationStrategy__Ptr_SelectiveSearchSegmentationStrategy__Ptr_SelectiveSearchSegmentationStrategy_", TRUE, "handle", "Ptr", "SelectiveSearchSegmentationStrategyMultiple", "", "call", "createSelectiveSearchSegmentationStrategyMultiple", "createSelectiveSearchSegmentationStrategyMultiple", <<"s1", "s2", "s3", "s4">>, <<"s1", "s2", "s3", "s4">>, <<<<"ptr", "SelectiveSearchSegmentationStrategy">>, <<"ptr", "SelectiveSearchSegmentationStrategy">>, <<"ptr", "SelectiveSearchSegmentationStrategy">>, <<"ptr", "SelectiveSearchSegmentationStrategy">>>>, "", ""),
    EP("cv_ximgproc_segmentation_createSelectiveSearchSegmentationStrategySize", TRUE, "handle", "Ptr", "SelectiveSearchSegmentationStrategySize", "", "call", "createSelectiveSearchSegmentationStrategySize", "createSelectiveSearchSegmentationStrategySize", <<>>, <<>>, <<>>, "", ""),
    EP("cv_ximgproc_segmentation_createSelectiveSearchSegmentationStrategyTexture", TRUE, "handle", "Ptr", "SelectiveSearchSegmentationStrategyTexture", "", "call", "createSelectiveSearchSegmentationStrategyTexture", "createSelectiveSearchSegmentationStrategyTexture", <<>>, <<>>, <<>>, "", ""),
    EP("cv_ximgproc_thinning_const__InputArrayR_const__OutputArrayR_int", TRUE, "void", "", "", "", "call", "thinning", "thinning", <<"src", "dst", "thinningType">>, <<"src", "dst", "thinningType">>, <<>>, "", ""),
    EP("cv_ximgproc_weightedMedianFilter_const__InputArrayR_const__InputArrayR_const__OutputArrayR_int_double_WMFWeightType_Mat", TRUE, "void", "", "", "", "call", "weightedMedianFilter", "weightedMedianFilter", <<"joint", "src", "dst", "r", "sigma", "weightType", "mask">>, <<"joint", "src", "dst", "r", "sigma", "weightType", "mask">>, <<>>, "", ""),
    EP("cv_ximgproc_AdaptiveManifoldFilter_filter_const__InputArrayR_const__OutputArrayR_const__InputArrayR", TRUE, "void", "", "", "AdaptiveManifoldFilter", "call", "filter", "filter", <<"src", "dst", "joint">>, <<"src", "dst", "joint">>, <<>>, "", ""),
    EP("cv_ximgproc_AdaptiveManifoldFilter_collectGarbage", TRUE, "void", "", "", "AdaptiveManifoldFilter", "call", "collectGarbage", "collectGarbage", <<>>, <<>>, <<>>, "", ""),
    EP("cv_ximgproc_AdaptiveManifoldFilter_create", TRUE, "handle", "Ptr", "AdaptiveManifoldFilter", "", "call", "create", "create", <<>>, <<>>, <<>>, "", ""),
    EP("cv_ximgproc_AdaptiveManifoldFilter_getSigmaS_const", TRUE, "value", "", "", "AdaptiveManifoldFilter", "call", "getSigmaS", "getSigmaS", <<>>, <<>>, <<>>, "", "SigmaS"),
    EP("cv_ximgproc_AdaptiveManifoldFilter_setSigmaS_double", TRUE, "void", "", "", "AdaptiveManifoldFilter", "call", "setSigmaS", "setSigmaS", <<"val">>, <<"val">>, <<>>, "", "SigmaS"),
    EP("cv_ximgproc_AdaptiveManifoldFilter_getSigmaR_const", TRUE, "value", "", "", "AdaptiveManifoldFilter", "call", "getSigmaR", "getSigmaR", <<>>, <<>>, <<>>, "", "SigmaR"),
    EP("cv_ximgproc_AdaptiveManifoldFilter_setSigmaR_double", TRUE, "void", "", "", "AdaptiveManifoldFilter", "call", "setSigmaR", "setSigmaR", <<"val">>, <<"val">>, <<>>, "", "SigmaR"),
    EP("cv_ximgproc_AdaptiveManifoldFilter_getTreeHeight_const", TRUE, "value", "", "", "AdaptiveManifoldFilter", "call", "getTreeHeight", "getTreeHeight", <<>>, <<>>, <<>>, "", "TreeHeight"),
    EP("cv_ximgproc_AdaptiveManifoldFilter_setTreeHeight_int", TRUE, "void", "", "", "AdaptiveManifoldFilter", "call", "setTreeHeight", "setTreeHeight", <<"val">>, <<"val">>, <<>>, "", "TreeHeight"),
    EP("cv_ximgproc_AdaptiveManifoldFilter_getPCAIterations_const", TRUE, "value", "", "", "AdaptiveManifoldFilter", "call", "getPCAIterations", "getPCAIterations", <<>>, <<>>, <<>>, "", "PCAIterations"),
    EP("cv_ximgproc_AdaptiveManifoldFilter_setPCAIterations_int", TRUE, "void", "", "", "AdaptiveManifoldFilter", "call", "setPCAIterations", "setPCAIterations", <<"val">>, <<"val">>, <<>>, "", "PCAIterations"),
    EP("cv_ximgproc_AdaptiveManifoldFilter_getAdjustOutliers_const", TRUE, "value", "", "", "AdaptiveManifoldFilter", "call", "getAdjustOutliers", "getAdjustOutliers", <<>>, <<>>, <<>>, "", "AdjustOutliers"),
    EP("cv_ximgproc_AdaptiveManifoldFilter_setAdjustOutliers_bool", TRUE, "void", "", "", "AdaptiveManifoldFilter", "call", "setAdjustOutliers", "setAdjustOutliers", <<"val">>, <<"val">>, <<>>, "", "AdjustOutliers"),
    EP("cv_ximgproc_AdaptiveManifoldFilter_getUseRNG_const", TRUE, "value", "", "", "AdaptiveManifoldFilter", "call", "getUseRNG", "getUseRNG", <<>>, <<>>, <<>>, "", "UseRNG"),
    EP("cv_ximgproc_AdaptiveManifoldFilter_setUseRNG_bool", TRUE, "void", "", "", "AdaptiveManifoldFilter", "call", "setUseRNG", "setUseRNG", <<"val">>, <<"val">>, <<>>, "", "UseRNG"),
    EP("cv_ximgproc_DTFilter_filter_const__InputArrayR_const__OutputArrayR_int", TRUE, "void", "", "", "DTFilter", "call", "filter", "filter", <<"src", "dst", "dDepth">>, <<"src", "dst", "dDepth">>, <<>>, "", ""),
    EP("cv_ximgproc_DisparityFilter_filter_const__InputArrayR_const__InputArrayR_const__OutputArrayR_const__InputArrayR_Rect_const__InputArrayR", TRUE, "void", "", "", "DisparityFilter", "call", "filter", "filter", <<"disparity_map_left", "left_view", "filtered_disparity_map", "disparity_map_right", "ROI", "right_view">>, <<"disparity_map_left", "left_view", "filtered_disparity_map", "disparity_map_right", "ROI", "right_view">>, <<>>, "", ""),
    EP("cv_ximgproc_DisparityWLSFilter_getLambda", TRUE, "value", "", "", "DisparityWLSFilter", "call", "getLambda", "getLambda", <<>>, <<>>, <<>>, "", "Lambda"),
    EP("cv_ximgproc_DisparityWLSFilter_setLambda_double", TRUE, "void", "", "", "DisparityWLSFilter", "call", "setLambda", "setLambda", <<"_lambda">>, <<"_lambda">>, <<>>, "", "Lambda"),
    EP("cv_ximgproc_DisparityWLSFilter_getSigmaColor", TRUE, "value", "", "", "DisparityWLSFilter", "call", "getSigmaColor", "getSigmaColor", <<>>, <<>>, <<>>, "", "SigmaColor"),
    EP("cv_ximgproc_DisparityWLSFilter_setSigmaColor_double", TRUE, "void", "", "", "DisparityWLSFilter", "call", "setSigmaColor", "setSigmaColor", <<"_sigma_color">>, <<"_sigma_color">>, <<>>, "", "SigmaColor"),
    EP("cv_ximgproc_DisparityWLSFilter_getLRCthresh", TRUE, "value", "", "", "DisparityWLSFilter", "call", "getLRCthresh", "getLRCthresh", <<>>, <<>>, <<>>, "", "LRCthresh"),
    EP("cv_ximgproc_DisparityWLSFilter_setLRCthresh_int", TRUE, "void", "", "", "DisparityWLSFilter", "call", "setLRCthresh", "setLRCthresh", <<"_LRC_thresh">>, <<"_LRC_thresh">>, <<>>, "", "LRCthresh"),
    EP("cv_ximgproc_DisparityWLSFilter_getDepthDiscontinuityRadius", TRUE, "value", "", "", "DisparityWLSFilter", "call", "getDepthDiscontinuityRadius", "getDepthDiscontinuityRadius", <<>>, <<>>, <<>>, "", "DepthDiscontinuityRadius"),
    EP("cv_ximgproc_DisparityWLSFilter_setDepthDiscontinuityRadius_int", TRUE, "void", "", "", "DisparityWLSFilter", "call", "setDepthDiscontinuityRadius", "setDepthDiscontinuityRadius", <<"_disc_radius">>, <<"_disc_radius">>, <<>>, "", "DepthDiscontinuityRadius"),
    EP("cv_ximgproc_DisparityWLSFilter_getConfidenceMap", TRUE, "handle", "Mat", "Mat", "DisparityWLSFilter", "call", "getConfidenceMap", "getConfidenceMap", <<>>, <<>>, <<>>, "", ""),
    EP("cv_ximgproc_DisparityWLSFilter_getROI", TRUE, "value", "", "", "DisparityWLSFilter", "call", "getROI", "getROI", <<>>, <<>>, <<>>, "", ""),
    EP("cv_ximgproc_EdgeAwareInterpolator_setK_int", TRUE, "void", "", "", "EdgeAwareInterpolator", "call", "setK", "setK", <<"_k">>, <<"_k">>, <<>>, "", "K"),
    EP("cv_ximgproc_EdgeAwareInterpolator_getK", TRUE, "value", "", "", "EdgeAwareInterpolator", "call", "getK", "getK", <<>>, <<>>, <<>>, "", "K"),
    EP("cv_ximgproc_EdgeAwareInterpolator_setSigma_float", TRUE, "void", "", "", "EdgeAwareInterpolator", "call", "setSigma", "setSigma", <<"_sigma">>, <<"_sigma">>, <<>>, "", "Sigma"),
    EP("cv_ximgproc_EdgeAwareInterpolator_getSigma", TRUE, "value", "", "", "EdgeAwareInterpolator", "call", "getSigma", "getSigma", <<>>, <<>>, <<>>, "", "Sigma"),
    EP("cv_ximgproc_EdgeAwareInterpolator_setLambda_float", TRUE, "void", "", "", "EdgeAwareInterpolator", "call", "setLambda", "setLambda", <<"_lambda">>, <<"_lambda">>, <<>>, "", "Lambda"),
    EP("cv_ximgproc_EdgeAwareInterpolator_getLambda", TRUE, "value", "", "", "EdgeAwareInterpolator", "call", "getLambda", "getLambda", <<>>, <<>>, <<>>, "", "Lambda"),
    EP("cv_ximgproc_EdgeAwareInterpolator_setUsePostProcessing_bool", TRUE, "void", "", "", "EdgeAwareInterpolator", "call", "setUsePostProcessing", "setUsePostProcessing", <<"_use_post_proc">>, <<"_use_post_proc">>, <<>>, "", "UsePostProcessing"),
    EP("cv_ximgproc_EdgeAwareInterpolator_getUsePostProcessing", TRUE, "value", "", "", "EdgeAwareInterpolator", "call", "getUsePostProcessing", "getUsePostProcessing", <<>>, <<>>, <<>>, "", "UsePostProcessing"),
    EP("cv_ximgproc_EdgeAwareInterpolator_setFGSLambda_float", TRUE, "void", "", "", "EdgeAwareInterpolator", "call", "setFGSLambda", "setFGSLambda", <<"_lambda">>, <<"_lambda">>, <<>>, "", "FGSLambda"),
    EP("cv_ximgproc_EdgeAwareInterpolator_getFGSLambda", TRUE, "value", "", "", "EdgeAwareInterpolator", "call", "getFGSLambda", "getFGSLambda", <<>>, <<>>, <<>>, "", "FGSLambda"),
    EP("cv_ximgproc_EdgeAwareInterpolator_setFGSSigma_float", TRUE, "void", "", "", "EdgeAwareInterpolator", "call", "setFGSSigma", "setFGSSigma", <<"_sigma">>, <<"_sigma">>, <<>>, "", "FGSSigma"),
    EP("cv_ximgproc_EdgeAwareInterpolator_getFGSSigma", TRUE, "value", "", "", "EdgeAwareInterpolator", "call", "getFGSSigma", "getFGSSigma", <<>>, <<>>, <<>>, "", "FGSSigma"),
    EP("cv_ximgproc_FastGlobalSmootherFilter_filter_const__InputArrayR_const__OutputArrayR", TRUE, "void", "", "", "FastGlobalSmootherFilter", "call", "filter", "filter", <<"src", "dst">>, <<"src", "dst">>, <<>>, "", ""),
    EP("cv_ximgproc_FastLineDetector_detect_const__InputArrayR_const__OutputArrayR", TRUE, "void", "", "", "FastLineDetector", "call", "detect", "detect", <<"_image", "_lines">>, <<"_image", "_lines">>, <<>>, "", ""),
    EP("cv_ximgproc_FastLineDetector_drawSegments_const__InputOutputArrayR_const__InputArrayR_bool", TRUE, "void", "", "", "FastLineDetector", "call", "drawSegments", "drawSegments", <<"_image", "lines", "draw_arrow">>, <<"_image", "lines", "draw_arrow">>, <<>>, "", ""),
    EP("cv_ximgproc_GuidedFilter_filter_const__InputArrayR_const__OutputArrayR_int", TRUE, "void", "", "", "GuidedFilter", "call", "filter", "filter", <<"src", "dst", "dDepth">>, <<"src", "dst", "dDepth">>, <<>>, "", ""),
    EP("cv_ximgproc_RFFeatureGetter_getFeatures_const_const_MatR_MatR_int_int_int_int_int", TRUE, "void", "", "", "RFFeatureGetter", "call", "getFeatures", "getFeatures", <<"src", "features", "gnrmRad", "gsmthRad", "shrink", "outNum", "gradNum">>, <<"src", "features", "gnrmRad", "gsmthRad", "shrink", "outNum", "gradNum">>, <<>>, "", ""),
    EP("cv_ximgproc_SparseMatchInterpolator_interpolate_const__InputArrayR_const__InputArrayR_const__InputArrayR_const__InputArrayR_const__OutputArrayR", TRUE, "void", "", "", "SparseMatchInterpolator", "call", "interpolate", "interpolate", <<"from_image", "from_points", "to_image", "to_points", "dense_flow">>, <<"from_image", "from_points", "to_image", "to_points", "dense_flow">>, <<>>, "", ""),
    EP("cv_ximgproc_StructuredEdgeDetection_detectEdges_const_const_MatR_MatR", TRUE, "void", "", "", "StructuredEdgeDetection", "call", "detectEdges", "detectEdges", <<"src", "dst">>, <<"src", "dst">>, <<>>, "", ""),
    EP("cv_ximgproc_SuperpixelLSC_getNumberOfSuperpixels_const", TRUE, "value", "", "", "SuperpixelLSC", "call", "getNumberOfSuperpixels", "getNumberOfSuperpixels", <<>>, <<>>, <<>>, "", ""),
    EP("cv_ximgproc_SuperpixelLSC_iterate_int", TRUE, "void", "", "", "SuperpixelLSC", "call", "iterate", "iterate", <<"num_iterations">>, <<"num_iterations">>, <<>>, "", ""),
    EP("cv_ximgproc_SuperpixelLSC_getLabels_const_const__OutputArrayR", TRUE, "void", "", "", "SuperpixelLSC", "call", "getLabels", "getLabels", <<"labels_out">>, <<"labels_out">>, <<>>, "", ""),
    EP("cv_ximgproc_SuperpixelLSC_getLabelContourMask_const_const__OutputArrayR_bool", TRUE, "void", "", "", "SuperpixelLSC", "call", "getLabelContourMask", "getLabelContourMask", <<"image", "thick_line">>, <<"image", "thick_line">>, <<>>, "", ""),
    EP("cv_ximgproc_SuperpixelLSC_enforceLabelConnectivity_int", TRUE, "void", "", "", "SuperpixelLSC", "call", "enforceLabelConnectivity", "enforceLabelConnectivity", <<"min_element_size">>, <<"min_element_size">>, <<>>, "", ""),
    EP("cv_ximgproc_SuperpixelSEEDS_getNumberOfSuperpixels", TRUE, "value", "", "", "SuperpixelSEEDS", "call", "getNumberOfSuperpixels", "getNumberOfSuperpixels", <<>>, <<>>, <<>>, "", ""),
    EP("cv_ximgproc_SuperpixelSEEDS_iterate_const__InputArrayR_int", TRUE, "void", "", "", "SuperpixelSEEDS", "call", "iterate", "iterate", <<"img", "num_iterations">>, <<"img", "num_iterations">>, <<>>, "", ""),
    EP("cv_ximgproc_SuperpixelSEEDS_getLabels_const__OutputArrayR", TRUE, "void", "", "", "SuperpixelSEEDS", "call", "getLabels", "getLabels", <<"labels_out">>, <<"labels_out">>, <<>>, "", ""),
    EP("cv_ximgproc_SuperpixelSEEDS_getLabelContourMask_const__OutputArrayR_bool", TRUE, "void", "", "", "SuperpixelSEEDS", "call", "getLabelContourMask", "getLabelContourMask", <<"image", "thick_line">>, <<"image", "thick_line">>, <<>>, "", ""),
    EP("cv_ximgproc_SuperpixelSLIC_getNumberOfSuperpixels_const", TRUE, "value", "", "", "SuperpixelSLIC", "call", "getNumberOfSuperpixels", "getNumberOfSuperpixels", <<>>, <<>>, <<>>, "", ""),
    EP("cv_ximgproc_SuperpixelSLIC_iterate_int", TRUE, "void", "", "", "SuperpixelSLIC", "call", "iterate", "iterate", <<"num_iterations">>, <<"num_iterations">>, <<>>, "", ""),
    EP("cv_ximgproc_SuperpixelSLIC_getLabels_const_const__OutputArrayR", TRUE, "void", "", "", "SuperpixelSLIC", "call", "getLabels", "getLabels", <<"labels_out">>, <<"labels_out">>, <<>>, "", ""),
    EP("cv_ximgproc_SuperpixelSLIC_getLabelContourMask_const_const__OutputArrayR_bool", TRUE, "void", "", "", "SuperpixelSLIC", "call", "getLabelContourMask", "getLabelContourMask", <<"image", "thick_line">>, <<"image", "thick_line">>, <<>>, "", ""),
    EP("cv_ximgproc_SuperpixelSLIC_enforceLabelConnectivity_int", TRUE, "void", "", "", "SuperpixelSLIC", "call", "enforceLabelConnectivity", "enforceLabelConnectivity", <<"min_element_size">>, <<"min_element_size">>, <<>>, "", ""),
    EP("cv_ximgproc_segmentation_GraphSegmentation_processImage_const__InputArrayR_const__OutputArrayR", TRUE, "void", "", "", "GraphSegmentation", "call", "processImage", "processImage", <<"src", "dst">>, <<"src", "dst">>, <<>>, "", ""),
    EP("cv_ximgproc_segmentation_GraphSegmentation_setSigma_double", TRUE, "void", "", "", "GraphSegmentation", "call", "setSigma", "setSigma", <<"sigma">>, <<"sigma">>, <<>>, "", "Sigma"),
    EP("cv_ximgproc_segmentation_GraphSegmentation_getSigma", TRUE, "value", "", "", "GraphSegmentation", "call", "getSigma", "getSigma", <<>>, <<>>, <<>>, "", "Sigma"),
    EP("cv_ximgproc_segmentation_GraphSegmentation_setK_float", TRUE, "void", "", "", "GraphSegmentation", "call", "setK", "setK", <<"k">>, <<"k">>, <<>>, "", "K"),
    EP("cv_ximgproc_segmentation_GraphSegmentation_getK", TRUE, "value", "", "", "GraphSegmentation", "call", "getK", "getK", <<>>, <<>>, <<>>, "", "K"),
    EP("cv_ximgproc_segmentation_GraphSegmentation_setMinSize_int", TRUE, "void", "", "", "GraphSegmentation", "call", "setMinSize", "setMinSize", <<"min_size">>, <<"min_size">>, <<>>, "", "MinSize"),
    EP("cv_ximgproc_segmentation_GraphSegmentation_getMinSize", TRUE, "value", "", "", "GraphSegmentation", "call", "getMinSize", "getMinSize", <<>>, <<>>, <<>>, "", "MinSize"),
    EP("cv_ximgproc_segmentation_SelectiveSearchSegmentation_setBaseImage_const__InputArrayR", TRUE, "void", "", "", "SelectiveSearchSegmentation", "call", "setBaseImage", "setBaseImage", <<"img">>, <<"img">>, <<>>, "", ""),
    EP("cv_ximgproc_segmentation_SelectiveSearchSegmentation_switchToSingleStrategy_int_float", TRUE, "void", "", "", "SelectiveSearchSegmentation", "call", "switchToSingleStrategy", "switchToSingleStrategy", <<"k", "sigma">>, <<"k", "sigma">>, <<>>, "", ""),
    EP("cv_ximgproc_segmentation_SelectiveSearchSegmentation_switchToSelectiveSearchFast_int_int_float", TRUE, "void", "", "", "SelectiveSearchSegmentation", "call", "switchToSelectiveSearchFast", "switchToSelectiveSearchFast", <<"base_k", "inc_k", "sigma">>, <<"base_k", "inc_k", "sigma">>, <<>>, "", ""),
    EP("cv_ximgproc_segmentation_SelectiveSearchSegmentation_switchToSelectiveSearchQuality_int_int_float", TRUE, "void", "", "", "SelectiveSearchSegmentation", "call", "switchToSelectiveSearchQuality", "switchToSelectiveSearchQuality", <<"base_k", "inc_k", "sigma">>, <<"base_k", "inc_k", "sigma">>, <<>>, "", ""),
    EP("cv_ximgproc_segmentation_SelectiveSearchSegmentation_addImage_const__InputArrayR", TRUE, "void", "", "", "SelectiveSearchSegmentation", "call", "addImage", "addImage", <<"img">>, <<"img">>, <<>>, "", ""),
    EP("cv_ximgproc_segmentation_SelectiveSearchSegmentation_clearImages", TRUE, "void", "", "", "SelectiveSearchSegmentation", "call", "clearImages", "clearImages", <<>>, <<>>, <<>>, "", ""),
    EP("cv_ximgproc_segmentation_SelectiveSearchSegmentation_addGraphSegmentation_Ptr_GraphSegmentation_", TRUE, "void", "", "", "SelectiveSearchSegmentation", "call", "addGraphSegmentation", "addGraphSegmentation", <<"g">>, <<"g">>, <<<<"ptr", "GraphSegmentation">>>>, "", ""),
    EP("cv_ximgproc_segmentation_SelectiveSearchSegmentation_clearGraphSegmentations", TRUE, "void", "", "", "SelectiveSearchSegmentation", "call", "clearGraphSegmentations", "clearGraphSegmentations", <<>>, <<>>, <<>>, "", ""),
    EP("cv_ximgproc_segmentation_SelectiveSearchSegmentation_addStrategy_Ptr_SelectiveSearchSegmentationStrategy_", TRUE, "void", "", "", "SelectiveSearchSegmentation", "call", "addStrategy", "addStrategy", <<"s">>, <<"s">>, <<<<"ptr", "SelectiveSearchSegmentationStrategy">>>>, "", ""),
    EP("cv_ximgproc_segmentation_SelectiveSearchSegmentation_clearStrategies", TRUE, "void", "", "", "SelectiveSearchSegmentation", "call", "clearStrategies", "clearStrategies", <<>>, <<>>, <<>>, "", ""),
    EP("cv_ximgproc_segmentation_SelectiveSearchSegmentation_process_vector_Rect_R", TRUE, "void", "", "", "SelectiveSearchSegmentation", "call", "process", "process", <<"rects">>, <<"rects">>, <<>>, "", ""),
    EP("cv_ximgproc_segmentation_SelectiveSearchSegmentationStrategy_setImage_const__InputArrayR_const__InputArrayR_const__InputArrayR_int", TRUE, "void", "", "", "SelectiveSearchSegmentationStrategy", "call", "setImage", "setImage", <<"img", "regions", "sizes", "image_id">>, <<"img", "regions", "sizes", "image_id">>, <<>>, "", ""),
    EP("cv_ximgproc_segmentation_SelectiveSearchSegmentationStrategy_get_int_int", TRUE, "value", "", "", "SelectiveSearchSegmentationStrategy", "call", "get", "get", <<"r1", "r2">>, <<"r1", "r2">>, <<>>, "", ""),
    EP("cv_ximgproc_segmentation_SelectiveSearchSegmentationStrategy_merge_int_int", TRUE, "void", "", "", "SelectiveSearchSegmentationStrategy", "call", "merge", "merge", <<"r1", "r2">>, <<"r1", "r2">>, <<>>, "", ""),
    EP("cv_ximgproc_segmentation_SelectiveSearchSegmentationStrategyMultiple_addStrategy_Ptr_SelectiveSearchSegmentationStrategy__float", TRUE, "void", "", "", "SelectiveSearchSegmentationStrategyMultiple", "call", "addStrategy", "addStrategy", <<"g", "weight">>, <<"g", "weight">>, <<<<"ptr", "SelectiveSearchSegmentationStrategy">>>>, "", ""),
    EP("cv_ximgproc_segmentation_SelectiveSearchSegmentationStrategyMultiple_clearStrategies", TRUE, "void", "", "", "SelectiveSearchSegmentationStrategyMultiple", "call", "clearStrategies", "clearStrategies", <<>>, <<>>, <<>>, "", "")
  }
(* The parameters through which a native operation can write an object of   *)
(* the caller: declared as a pointer to a non-const object, or to an         *)
(* _OutputArray or _InputOutputArray, and forwarded as `*name`.              *)
OutputParameters ==
  {
    <<"cv_line_descriptor_drawKeylines_const_MatR_const_vector_KeyLine_R_MatR_const_ScalarR_int", "outImage">>,
    <<"cv_line_descriptor_drawLineMatches_const_MatR_const_vector_KeyLine_R_const_MatR_const_vector_KeyLine_R_const_vector_DMatch_R_MatR_const_ScalarR_const_ScalarR_const_vector_char_R_int", "outImg">>,
    <<"cv_line_descriptor_BinaryDescriptor_write_const_FileStorageR", "fs">>,
    <<"cv_line_descriptor_BinaryDescriptor_detect_const_MatR_vector_KeyLine_R_const_MatR", "keypoints">>,
    <<"cv_line_descriptor_BinaryDescriptor_detect_const_const_vector_Mat_R_vector_vector_KeyLine__R_const_vector_Mat_R", "keylines">>,
    <<"cv_line_descriptor_BinaryDescriptor_compute_const_const_MatR_vector_KeyLine_R_MatR_bool", "keylines">>,
    <<"cv_line_descriptor_BinaryDescriptor_compute_const_const_MatR_vector_KeyLine_R_MatR_bool", "descriptors">>,
    <<"cv_line_descriptor_BinaryDescriptor_compute_const_const_vector_Mat_R_vector_vector_KeyLine__R_vector_Mat_R_bool", "keylines">>,
    <<"cv_line_descriptor_BinaryDescriptor_compute_const_const_vector_Mat_R_vector_vector_KeyLine__R_vector_Mat_R_bool", "descriptors">>,
    <<"cv_line_descriptor_BinaryDescriptor_Params_write_const_FileStorageR", "fs">>,
    <<"cv_line_descriptor_BinaryDescriptorMatcher_match_const_const_MatR_const_MatR_vector_DMatch_R_const_MatR", "matches">>,
    <<"cv_line_descriptor_BinaryDescriptorMatcher_match_const_MatR_vector_DMatch_R_const_vector_Mat_R", "matches">>,
    <<"cv_line_descriptor_BinaryDescriptorMatcher_knnMatch_const_const_MatR_const_MatR_vector_vector_DMatch__R_int_const_MatR_bool", "matches">>,
    <<"cv_line_descriptor_BinaryDescriptorMatcher_knnMatch_const_MatR_vector_vector_DMatch__R_int_const_vector_Mat_R_bool", "matches">>,
    <<"cv_line_descriptor_BinaryDescriptorMatcher_radiusMatch_const_const_MatR_const_MatR_vector_vector_DMatch__R_float_const_MatR_bool", "matches">>,
    <<"cv_line_descriptor_BinaryDescriptorMatcher_radiusMatch_const_MatR_vector_vector_DMatch__R_float_const_vector_Mat_R_bool", "matches">>,
    <<"cv_line_descriptor_LSDDetector_detect_const_MatR_vector_KeyLine_R_int_int_const_MatR", "keypoints">>,
    <<"cv_line_descriptor_LSDDetector_detect_const_const_vector_Mat_R_vector_vector_KeyLine__R_int_int_const_vector_Mat_R", "keylines">>,
    <<"cv_ximgproc_FastHoughTransform_const__InputArrayR_const__OutputArrayR_int_int_int_int", "dst">>,
    <<"cv_ximgproc_GradientDericheX_const__InputArrayR_const__OutputArrayR_double_double", "_dst">>,
    <<"cv_ximgproc_GradientDericheY_const__InputArrayR_const__OutputArrayR_double_double", "_dst">>,
    <<"cv_ximgproc_GradientPaillouX_const__InputArrayR_const__OutputArrayR_double_double", "_dst">>,
    <<"cv_ximgproc_GradientPaillouY_const__InputArrayR_const__OutputArrayR_double_double", "_dst">>,
    <<"cv_ximgproc_amFilter_const__InputArrayR_const__InputArrayR_const__OutputArrayR_double_double_bool", "dst">>,
    <<"cv_ximgproc_bilateralTextureFilter_const__InputArrayR_const__OutputArrayR_int_int_double_double", "dst">>,
    <<"cv_ximgproc_covarianceEstimation_const__InputArrayR_const__OutputArrayR_int_int", "dst">>,
    <<"cv_ximgproc_dtFilter_const__InputArrayR_const__InputArrayR_const__OutputArrayR_double_double_int_int", "dst">>,
    <<"cv_ximgproc_fastGlobalSmootherFilter_const__InputArrayR_const__InputArrayR_const__OutputArrayR_double_double_double_int", "dst">>,
    <<"cv_ximgproc_getDisparityVis_const__InputArrayR_const__OutputArrayR_double", "dst">>,
    <<"cv_ximgproc_guidedFilter_const__InputArrayR_const__InputArrayR_const__OutputArrayR_int_double_int", "dst">>,
    <<"cv_ximgproc_jointBilateralFilter_const__InputArrayR_const__InputArrayR_const__OutputArrayR_int_double_double_int", "dst">>,
    <<"cv_ximgproc_l0Smooth_const__InputArrayR_const__OutputArrayR_double_double", "dst">>,
    <<"cv_ximgproc_niBlackThreshold_const__InputArrayR_const__OutputArrayR_double_int_int_double", "_dst">>,
    <<"cv_ximgproc_readGT_String_const__OutputArrayR", "dst">>,
    <<"cv_ximgproc_rollingGuidanceFilter_const__InputArrayR_const__OutputArrayR_int_double_double_int_int", "dst">>,
    <<"cv_ximgproc_thinning_const__InputArrayR_const__OutputArrayR_int", "dst">>,
    <<"cv_ximgproc_weightedMedianFilter_const__InputArrayR_const__InputArrayR_const__OutputArrayR_int_double_WMFWeightType_Mat", "dst">>,
    <<"cv_ximgproc_weightedMedianFilter_const__InputArrayR_const__InputArrayR_const__OutputArrayR_int_double_WMFWeightType_Mat", "mask">>,
    <<"cv_ximgproc_AdaptiveManifoldFilter_filter_const__InputArrayR_const__OutputArrayR_const__InputArrayR", "dst">>,
    <<"cv_ximgproc_DTFilter_filter_const__InputArrayR_const__OutputArrayR_int", "dst">>,
    <<"cv_ximgproc_DisparityFilter_filter_const__InputArrayR_const__InputArrayR_const__OutputArrayR_const__InputArrayR_Rect_const__InputArrayR", "filtered_disparity_map">>,
    <<"cv_ximgproc_FastGlobalSmootherFilter_filter_const__InputArrayR_const__OutputArrayR", "dst">>,
    <<"cv_ximgproc_FastLineDetector_detect_const__InputArrayR_const__OutputArrayR", "_lines">>,
    <<"cv_ximgproc_FastLineDetector_drawSegments_const__InputOutputArrayR_const__InputArrayR_bool", "_image">>,
    <<"cv_ximgproc_GuidedFilter_filter_const__InputArrayR_const__OutputArrayR_int", "dst">>,
    <<"cv_ximgproc_RFFeatureGetter_getFeatures_const_const_MatR_MatR_int_int_int_int_int", "features">>,
    <<"cv_ximgproc_SparseMatchInterpolator_interpolate_const__InputArrayR_const__InputArrayR_const__InputArrayR_const__InputArrayR_const__OutputArrayR", "dense_flow">>,
    <<"cv_ximgproc_StructuredEdgeDetection_detectEdges_const_const_MatR_MatR", "dst">>,
    <<"cv_ximgproc_SuperpixelLSC_getLabels_const_const__OutputArrayR", "labels_out">>,
    <<"cv_ximgproc_SuperpixelLSC_getLabelContourMask_const_const__OutputArrayR_bool", "image">>,
    <<"cv_ximgproc_SuperpixelSEEDS_getLabels_const__OutputArrayR", "labels_out">>,
    <<"cv_ximgproc_SuperpixelSEEDS_getLabelContourMask_const__OutputArrayR_bool", "image">>,
    <<"cv_ximgproc_SuperpixelSLIC_getLabels_const_const__OutputArrayR", "labels_out">>,
    <<"cv_ximgproc_SuperpixelSLIC_getLabelContourMask_const_const__OutputArrayR_bool", "image">>,
    <<"cv_ximgproc_segmentation_GraphSegmentation_processImage_const__InputArrayR_const__OutputArrayR", "dst">>,
    <<"cv_ximgproc_segmentation_SelectiveSearchSegmentation_process_vector_Rect_R", "rects">>
  }

(* The parameters forwarded through a temporary: cv::String(name).        *)
CopiedParameters ==
  {
    <<"cv_ximgproc_createStructuredEdgeDetection_const_StringR_Ptr_RFFeatureGetter_", "model">>,
    <<"cv_ximgproc_readGT_String_const__OutputArrayR", "src_path">>
  }
(* The parameters that point to a plain value struct of the caller         *)
(* (const cv::Point2f*, const cv::Rect*, const cv::Scalar*, ...), all       *)
(* forwarded as `*name`.                                                    *)
ValueParameters ==
  {
    <<"cv_line_descriptor_drawKeylines_const_MatR_const_vector_KeyLine_R_MatR_const_ScalarR_int", "color">>,
    <<"cv_line_descriptor_drawLineMatches_const_MatR_const_vector_KeyLine_R_const_MatR_const_vector_KeyLine_R_const_vector_DMatch_R_MatR_const_ScalarR_const_ScalarR_const_vector_char_R_int", "matchColor">>,
    <<"cv_line_descriptor_drawLineMatches_const_MatR_const_vector_KeyLine_R_const_MatR_const_vector_KeyLine_R_const_vector_DMatch_R_MatR_const_ScalarR_const_ScalarR_const_vector_char_R_int", "singleLineColor">>,
    <<"cv_line_descriptor_KeyLine_setPropPt_Point2f", "val">>,
    <<"cv_ximgproc_HoughPoint2Line_const_PointR_const__InputArrayR_int_int_int", "houghPoint">>,
    <<"cv_ximgproc_computeBadPixelPercent_const__InputArrayR_const__InputArrayR_Rect_int", "ROI">>,
    <<"cv_ximgproc_computeMSE_const__InputArrayR_const__InputArrayR_Rect", "ROI">>,
    <<"cv_ximgproc_DisparityFilter_filter_const__InputArrayR_const__InputArrayR_const__OutputArrayR_const__InputArrayR_Rect_const__InputArrayR", "ROI">>
  }

(* The entry points that return a plain value struct: Result<cv::Point2f>, *)
(* Result<cv::Vec4i>, Result<cv::Rect>.                                     *)
StructResults ==
  {
    "cv_line_descriptor_KeyLine_getPropPt_const",
    "cv_line_descriptor_KeyLine_getStartPoint_const",
    "cv_line_descriptor_KeyLine_getEndPoint_const",
    "cv_line_descriptor_KeyLine_getStartPointInOctave_const",
    "cv_line_descriptor_KeyLine_getEndPointInOctave_const",
    "cv_ximgproc_HoughPoint2Line_const_PointR_const__InputArrayR_int_int_int",
    "cv_ximgproc_DisparityWLSFilter_getROI"
  }
(* The pointer parameters other than `instance` that the body forwards as   *)
(* `*name`: the pointer is dereferenced where the argument list of the      *)
(* native call is evaluated.                                                *)
Dereferenced ==
  {
    <<"cv_line_descriptor_drawKeylines_const_MatR_const_vector_KeyLine_R_MatR_const_ScalarR_int", "image">>,
    <<"cv_line_descriptor_drawKeylines_const_MatR_const_vector_KeyLine_R_MatR_const_ScalarR_int", "keylines">>,
    <<"cv_line_descriptor_drawKeylines_const_MatR_const_vector_KeyLine_R_MatR_const_ScalarR_int", "outImage">>,
    <<"cv_line_descriptor_drawKeylines_const_MatR_const_vector_KeyLine_R_MatR_const_ScalarR_int", "color">>,
    <<"cv_line_descriptor_drawLineMatches_const_MatR_const_vector_KeyLine_R_const_MatR_const_vector_KeyLine_R_const_vector_DMatch_R_MatR_const_ScalarR_const_ScalarR_const_vector_char_R_int", "img1">>,
    <<"cv_line_descriptor_drawLineMatches_const_MatR_const_vector_KeyLine_R_const_MatR_const_vector_KeyLine_R_const_vector_DMatch_R_MatR_const_ScalarR_const_ScalarR_const_vector_char_R_int", "keylines1">>,
    <<"cv_line_descriptor_drawLineMatches_const_MatR_const_vector_KeyLine_R_const_MatR_const_vector_KeyLine_R_const_vector_DMatch_R_MatR_const_ScalarR_const_ScalarR_const_vector_char_R_int", "img2">>,
    <<"cv_line_descriptor_drawLineMatches_const_MatR_const_vector_KeyLine_R_const_MatR_const_vector_KeyLine_R_const_vector_DMatch_R_MatR_const_ScalarR_const_ScalarR_const_vector_char_R_int", "keylines2">>,
    <<"cv_line_descriptor_drawLineMatches_const_MatR_const_vector_KeyLine_R_const_MatR_const_vector_KeyLine_R_const_vector_DMatch_R_MatR_const_ScalarR_const_ScalarR_const_vector_char_R_int", "matches1to2">>,
    <<"cv_line_descriptor_drawLineMatches_const_MatR_const_vector_KeyLine_R_const_MatR_const_vector_KeyLine_R_const_vector_DMatch_R_MatR_const_ScalarR_const_ScalarR_const_vector_char_R_int", "outImg">>,
    <<"cv_line_descriptor_drawLineMatches_const_MatR_const_vector_KeyLine_R_const_MatR_const_vector_KeyLine_R_const_vector_DMatch_R_MatR_const_ScalarR_const_ScalarR_const_vector_char_R_int", "matchColor">>,
    <<"cv_line_descriptor_drawLineMatches_const_MatR_const_vector_KeyLine_R_const_MatR_const_vector_KeyLine_R_const_vector_DMatch_R_MatR_const_ScalarR_const_ScalarR_const_vector_char_R_int", "singleLineColor">>,
    <<"cv_line_descriptor_drawLineMatches_const_MatR_const_vector_KeyLine_R_const_MatR_const_vector_KeyLine_R_const_vector_DMatch_R_MatR_const_ScalarR_const_ScalarR_const_vector_char_R_int", "matchesMask">>,
    <<"cv_line_descriptor_BinaryDescriptor_BinaryDescriptor_const_ParamsR", "parameters">>,
    <<"cv_line_descriptor_BinaryDescriptor_createBinaryDescriptor_Params", "parameters">>,
    <<"cv_line_descriptor_BinaryDescriptor_read_const_FileNodeR", "fn">>,
    <<"cv_line_descriptor_BinaryDescriptor_write_const_FileStorageR", "fs">>,
    <<"cv_line_descriptor_BinaryDescriptor_detect_const_MatR_vector_KeyLine_R_const_MatR", "image">>,
    <<"cv_line_descriptor_BinaryDescriptor_detect_const_MatR_vector_KeyLine_R_const_MatR", "keypoints">>,
    <<"cv_line_descriptor_BinaryDescriptor_detect_const_MatR_vector_KeyLine_R_const_MatR", "mask">>,
    <<"cv_line_descriptor_BinaryDescriptor_detect_const_const_vector_Mat_R_vector_vector_KeyLine__R_const_vector_Mat_R", "images">>,
    <<"cv_line_descriptor_BinaryDescriptor_detect_const_const_vector_Mat_R_vector_vector_KeyLine__R_const_vector_Mat_R", "keylines">>,
    <<"cv_line_descriptor_BinaryDescriptor_detect_const_const_vector_Mat_R_vector_vector_KeyLine__R_const_vector_Mat_R", "masks">>,
    <<"cv_line_descriptor_BinaryDescriptor_compute_const_const_MatR_vector_KeyLine_R_MatR_bool", "image">>,
    <<"cv_line_descriptor_BinaryDescriptor_compute_const_const_MatR_vector_KeyLine_R_MatR_bool", "keylines">>,
    <<"cv_line_descriptor_BinaryDescriptor_compute_const_const_MatR_vector_KeyLine_R_MatR_bool", "descriptors">>,
    <<"cv_line_descriptor_BinaryDescriptor_compute_const_const_vector_Mat_R_vector_vector_KeyLine__R_vector_Mat_R_bool", "images">>,
    <<"cv_line_descriptor_BinaryDescriptor_compute_const_const_vector_Mat_R_vector_vector_KeyLine__R_vector_Mat_R_bool", "keylines">>,
    <<"cv_line_descriptor_BinaryDescriptor_compute_const_const_vector_Mat_R_vector_vector_KeyLine__R_vector_Mat_R_bool", "descriptors">>,
    <<"cv_line_descriptor_BinaryDescriptor_Params_read_const_FileNodeR", "fn">>,
    <<"cv_line_descriptor_BinaryDescriptor_Params_write_const_FileStorageR", "fs">>,
    <<"cv_line_descriptor_BinaryDescriptorMatcher_match_const_const_MatR_const_MatR_vector_DMatch_R_const_MatR", "queryDescriptors">>,
    <<"cv_line_descriptor_BinaryDescriptorMatcher_match_const_const_MatR_const_MatR_vector_DMatch_R_const_MatR", "trainDescriptors">>,
    <<"cv_line_descriptor_BinaryDescriptorMatcher_match_const_const_MatR_const_MatR_vector_DMatch_R_const_MatR", "matches">>,
    <<"cv_line_descriptor_BinaryDescriptorMatcher_match_const_const_MatR_const_MatR_vector_DMatch_R_const_MatR", "mask">>,
    <<"cv_line_descriptor_BinaryDescriptorMatcher_match_const_MatR_vector_DMatch_R_const_vector_Mat_R", "queryDescriptors">>,
    <<"cv_line_descriptor_BinaryDescriptorMatcher_match_const_MatR_vector_DMatch_R_const_vector_Mat_R", "matches">>,
    <<"cv_line_descriptor_BinaryDescriptorMatcher_match_const_MatR_vector_DMatch_R_const_vector_Mat_R", "masks">>,
    <<"cv_line_descriptor_BinaryDescriptorMatcher_knnMatch_const_const_MatR_const_MatR_vector_vector_DMatch__R_int_const_MatR_bool", "queryDescriptors">>,
    <<"cv_line_descriptor_BinaryDescriptorMatcher_knnMatch_const_const_MatR_const_MatR_vector_vector_DMatch__R_int_const_MatR_bool", "trainDescriptors">>,
    <<"cv_line_descriptor_BinaryDescriptorMatcher_knnMatch_const_const_MatR_const_MatR_vector_vector_DMatch__R_int_const_MatR_bool", "matches">>,
    <<"cv_line_descriptor_BinaryDescriptorMatcher_knnMatch_const_const_MatR_const_MatR_vector_vector_DMatch__R_int_const_MatR_bool", "mask">>,
    <<"cv_line_descriptor_BinaryDescriptorMatcher_knnMatch_const_MatR_vector_vector_DMatch__R_int_const_vector_Mat_R_bool", "queryDescriptors">>,
    <<"cv_line_descriptor_BinaryDescriptorMatcher_knnMatch_const_MatR_vector_vector_DMatch__R_int_const_vector_Mat_R_bool", "matches">>,
    <<"cv_line_descriptor_BinaryDescriptorMatcher_knnMatch_const_MatR_vector_vector_DMatch__R_int_const_vector_Mat_R_bool", "masks">>,
    <<"cv_line_descriptor_BinaryDescriptorMatcher_radiusMatch_const_const_MatR_const_MatR_vector_vector_DMatch__R_float_const_MatR_bool", "queryDescriptors">>,
    <<"cv_line_descriptor_BinaryDescriptorMatcher_radiusMatch_const_const_MatR_const_MatR_vector_vector_DMatch__R_float_const_MatR_bool", "trainDescriptors">>,
    <<"cv_line_descriptor_BinaryDescriptorMatcher_radiusMatch_const_const_MatR_const_MatR_vector_vector_DMatch__R_float_const_MatR_bool", "matches">>,
    <<"cv_line_descriptor_BinaryDescriptorMatcher_radiusMatch_const_const_MatR_const_MatR_vector_vector_DMatch__R_float_const_MatR_bool", "mask">>,
    <<"cv_line_descriptor_BinaryDescriptorMatcher_radiusMatch_const_MatR_vector_vector_DMatch__R_float_const_vector_Mat_R_bool", "queryDescriptors">>,
    <<"cv_line_descriptor_BinaryDescriptorMatcher_radiusMatch_const_MatR_vector_vector_DMatch__R_float_const_vector_Mat_R_bool", "matches">>,
    <<"cv_line_descriptor_BinaryDescriptorMatcher_radiusMatch_const_MatR_vector_vector_DMatch__R_float_const_vector_Mat_R_bool", "masks">>,
    <<"cv_line_descriptor_BinaryDescriptorMatcher_add_const_vector_Mat_R", "descriptors">>,
    <<"cv_line_descriptor_KeyLine_setPropPt_Point2f", "val">>,
    <<"cv_line_descriptor_LSDDetector_detect_const_MatR_vector_KeyLine_R_int_int_const_MatR", "image">>,
    <<"cv_line_descriptor_LSDDetector_detect_const_MatR_vector_KeyLine_R_int_int_const_MatR", "keypoints">>,
    <<"cv_line_descriptor_LSDDetector_detect_const_MatR_vector_KeyLine_R_int_int_const_MatR", "mask">>,
    <<"cv_line_descriptor_LSDDetector_detect_const_const_vector_Mat_R_vector_vector_KeyLine__R_int_int_const_vector_Mat_R", "images">>,
    <<"cv_line_descriptor_LSDDetector_detect_const_const_vector_Mat_R_vector_vector_KeyLine__R_int_int_const_vector_Mat_R", "keylines">>,
    <<"cv_line_descriptor_LSDDetector_detect_const_const_vector_Mat_R_vector_vector_KeyLine__R_int_int_const_vector_Mat_R", "masks">>,
    <<"cv_ximgproc_FastHoughTransform_const__InputArrayR_const__OutputArrayR_int_int_int_int", "src">>,
    <<"cv_ximgproc_FastHoughTransform_const__InputArrayR_const__OutputArrayR_int_int_int_int", "dst">>,
    <<"cv_ximgproc_GradientDericheX_const__InputArrayR_const__OutputArrayR_double_double", "_op">>,
    <<"cv_ximgproc_GradientDericheX_const__InputArrayR_const__OutputArrayR_double_double", "_dst">>,
    <<"cv_ximgproc_GradientDericheY_const__InputArrayR_const__OutputArrayR_double_double", "_op">>,
    <<"cv_ximgproc_GradientDericheY_const__InputArrayR_const__OutputArrayR_double_double", "_dst">>,
    <<"cv_ximgproc_GradientPaillouX_const__InputArrayR_const__OutputArrayR_double_double", "op">>,
    <<"cv_ximgproc_GradientPaillouX_const__InputArrayR_const__OutputArrayR_double_double", "_dst">>,
    <<"cv_ximgproc_GradientPaillouY_const__InputArrayR_const__OutputArrayR_double_double", "op">>,
    <<"cv_ximgproc_GradientPaillouY_const__InputArrayR_const__OutputArrayR_double_double", "_dst">>,
    <<"cv_ximgproc_HoughPoint2Line_const_PointR_const__InputArrayR_int_int_int", "houghPoint">>,
    <<"cv_ximgproc_HoughPoint2Line_const_PointR_const__InputArrayR_int_int_int", "srcImgInfo">>,
    <<"cv_ximgproc_amFilter_const__InputArrayR_const__InputArrayR_const__OutputArrayR_double_double_bool", "joint">>,
    <<"cv_ximgproc_amFilter_const__InputArrayR_const__InputArrayR_const__OutputArrayR_double_double_bool", "src">>,
    <<"cv_ximgproc_amFilter_const__InputArrayR_const__InputArrayR_const__OutputArrayR_double_double_bool", "dst">>,
    <<"cv_ximgproc_bilateralTextureFilter_const__InputArrayR_const__OutputArrayR_int_int_double_double", "src">>,
    <<"cv_ximgproc_bilateralTextureFilter_const__InputArrayR_const__OutputArrayR_int_int_double_double", "dst">>,
    <<"cv_ximgproc_computeBadPixelPercent_const__InputArrayR_const__InputArrayR_Rect_int", "GT">>,
    <<"cv_ximgproc_computeBadPixelPercent_const__InputArrayR_const__InputArrayR_Rect_int", "src">>,
    <<"cv_ximgproc_computeBadPixelPercent_const__InputArrayR_const__InputArrayR_Rect_int", "ROI">>,
    <<"cv_ximgproc_computeMSE_const__InputArrayR_const__InputArrayR_Rect", "GT">>,
    <<"cv_ximgproc_computeMSE_const__InputArrayR_const__InputArrayR_Rect", "src">>,
    <<"cv_ximgproc_computeMSE_const__InputArrayR_const__InputArrayR_Rect", "ROI">>,
    <<"cv_ximgproc_covarianceEstimation_const__InputArrayR_const__OutputArrayR_int_int", "src">>,
    <<"cv_ximgproc_covarianceEstimation_const__InputArrayR_const__OutputArrayR_int_int", "dst">>,
    <<"cv_ximgproc_createDTFilter_const__InputArrayR_double_double_int_int", "guide">>,
    <<"cv_ximgproc_createDisparityWLSFilter_Ptr_StereoMatcher_", "matcher_left">>,
    <<"cv_ximgproc_createFastGlobalSmootherFilter_const__InputArrayR_double_double_double_int", "guide">>,
    <<"cv_ximgproc_createGuidedFilter_const__InputArrayR_int_double", "guide">>,
    <<"cv_ximgproc_createRightMatcher_Ptr_StereoMatcher_", "matcher_left">>,
    <<"cv_ximgproc_createStructuredEdgeDetection_const_StringR_Ptr_RFFeatureGetter_", "howToGetFeatures">>,
    <<"cv_ximgproc_createSuperpixelLSC_const__InputArrayR_int_float", "image">>,
    <<"cv_ximgproc_createSuperpixelSLIC_const__InputArrayR_int_int_float", "image">>,
    <<"cv_ximgproc_dtFilter_const__InputArrayR_const__InputArrayR_const__OutputArrayR_double_double_int_int", "guide">>,
    <<"cv_ximgproc_dtFilter_const__InputArrayR_const__InputArrayR_const__OutputArrayR_double_double_int_int", "src">>,
    <<"cv_ximgproc_dtFilter_const__InputArrayR_const__InputArrayR_const__OutputArrayR_double_double_int_int", "dst">>,
    <<"cv_ximgproc_fastGlobalSmootherFilter_const__InputArrayR_const__InputArrayR_const__OutputArrayR_double_double_double_int", "guide">>,
    <<"cv_ximgproc_fastGlobalSmootherFilter_const__InputArrayR_const__InputArrayR_const__OutputArrayR_double_double_double_int", "src">>,
    <<"cv_ximgproc_fastGlobalSmootherFilter_const__InputArrayR_const__InputArrayR_const__OutputArrayR_double_double_double_int", "dst">>,
    <<"cv_ximgproc_getDisparityVis_const__InputArrayR_const__OutputArrayR_double", "src">>,
    <<"cv_ximgproc_getDisparityVis_const__InputArrayR_const__OutputArrayR_double", "dst">>,
    <<"cv_ximgproc_guidedFilter_const__InputArrayR_const__InputArrayR_const__OutputArrayR_int_double_int", "guide">>,
    <<"cv_ximgproc_guidedFilter_const__InputArrayR_const__InputArrayR_const__OutputArrayR_int_double_int", "src">>,
    <<"cv_ximgproc_guidedFilter_const__InputArrayR_const__InputArrayR_const__OutputArrayR_int_double_int", "dst">>,
    <<"cv_ximgproc_jointBilateralFilter_const__InputArrayR_const__InputArrayR_const__OutputArrayR_int_double_double_int", "joint">>,
    <<"cv_ximgproc_jointBilateralFilter_const__InputArrayR_const__InputArrayR_const__OutputArrayR_int_double_double_int", "src">>,
    <<"cv_ximgproc_jointBilateralFilter_const__InputArrayR_const__InputArrayR_const__OutputArrayR_int_double_double_int", "dst">>,
    <<"cv_ximgproc_l0Smooth_const__InputArrayR_const__OutputArrayR_double_double", "src">>,
    <<"cv_ximgproc_l0Smooth_const__InputArrayR_const__OutputArrayR_double_double", "dst">>,
    <<"cv_ximgproc_niBlackThreshold_const__InputArrayR_const__OutputArrayR_double_int_int_double", "_src">>,
    <<"cv_ximgproc_niBlackThreshold_const__InputArrayR_const__OutputArrayR_double_int_int_double", "_dst">>,
    <<"cv_ximgproc_readGT_String_const__OutputArrayR", "dst">>,
    <<"cv_ximgproc_rollingGuidanceFilter_const__InputArrayR_const__OutputArrayR_int_double_double_int_int", "src">>,
    <<"cv_ximgproc_rollingGuidanceFilter_const__InputArrayR_const__OutputArrayR_int_double_double_int_int", "dst">>,
    <<"cv_ximgproc_segmentation_createSelectiveSearchSegmentationStrategyMultiple_Ptr_SelectiveSearchSegmentationStrategy_", "s1">>,
    <<"cv_ximgproc_segmentation_createSelectiveSearchSegmentationStrategyMultiple_Ptr_SelectiveSearchSegmentationStrategy__Ptr_SelectiveSearchSegmentationStrategy_", "s1">>,
    <<"cv_ximgproc_segmentation_createSelectiveSearchSegmentationStrategyMultiple_Ptr_SelectiveSearchSegmentationStrategy__Ptr_SelectiveSearchSegmentationStrategy_", "s2">>,
    <<"cv_ximgproc_segmentation_createSelectiveSearchSegmentationStrategyMultiple_Ptr_SelectiveSearchSegmentationStrategy__Ptr_SelectiveSearchSegmentationStrategy__Ptr_SelectiveSearchSegmentationStrategy_", "s1">>,
    <<"cv_ximgproc_segmentation_createSelectiveSearchSegmentationStrategyMultiple_Ptr_SelectiveSearchSegmentationStrategy__Ptr_SelectiveSearchSegmentationStrategy__Ptr_SelectiveSearchSegmentationStrategy_", "s2">>,
    <<"cv_ximgproc_segmentation_createSelectiveSearchSegmentationStrategyMultiple_Ptr_SelectiveSearchSegmentationStrategy__Ptr_SelectiveSearchSegmentationStrategy__Ptr_SelectiveSearchSegmentationStrategy_", "s3">>,
    <<"cv_ximgproc_segmentation_createSelectiveSearchSegmentationStrategyMultiple_Ptr_SelectiveSearchSegmentationStrategy__Ptr_SelectiveSearchSegmentationStrategy__Ptr_SelectiveSearchSegmentationStrategy__Ptr_SelectiveSearchSegmentationStrategy_", "s1">>,
    <<"cv_ximgproc_segmentation_createSelectiveSearchSegmentationStrategyMultiple_Ptr_SelectiveSearchSegmentationStrategy__Ptr_SelectiveSearchSegmentationStrategy__Ptr_SelectiveSearchSegmentationStrategy__Ptr_SelectiveSearchSegmentationStrategy_", "s2">>,
    <<"cv_ximgproc_segmentation_createSelectiveSearchSegmentationStrategyMultiple_Ptr_SelectiveSearchSegmentationStrategy__Ptr_SelectiveSearchSegmentationStrategy__Ptr_SelectiveSearchSegmentationStrategy__Ptr_SelectiveSearchSegmentationStrategy_", "s3">>,
    <<"cv_ximgproc_segmentation_createSelectiveSearchSegmentationStrategyMultiple_Ptr_SelectiveSearchSegmentationStrategy__Ptr_SelectiveSearchSegmentationStrategy__Ptr_SelectiveSearchSegmentationStrategy__Ptr_SelectiveSearchSegmentationStrategy_", "s4">>,
    <<"cv_ximgproc_thinning_const__InputArrayR_const__OutputArrayR_int", "src">>,
    <<"cv_ximgproc_thinning_const__InputArrayR_const__OutputArrayR_int", "dst">>,
    <<"cv_ximgproc_weightedMedianFilter_const__InputArrayR_const__InputArrayR_const__OutputArrayR_int_double_WMFWeightType_Mat", "joint">>,
    <<"cv_ximgproc_weightedMedianFilter_const__InputArrayR_const__InputArrayR_const__OutputArrayR_int_double_WMFWeightType_Mat", "src">>,
    <<"cv_ximgproc_weightedMedianFilter_const__InputArrayR_const__InputArrayR_const__OutputArrayR_int_double_WMFWeightType_Mat", "dst">>,
    <<"cv_ximgproc_weightedMedianFilter_const__InputArrayR_const__InputArrayR_const__OutputArrayR_int_double_WMFWeightType_Mat", "mask">>,
    <<"cv_ximgproc_AdaptiveManifoldFilter_filter_const__InputArrayR_const__OutputArrayR_const__InputArrayR", "src">>,
    <<"cv_ximgproc_AdaptiveManifoldFilter_filter_const__InputArrayR_const__OutputArrayR_const__InputArrayR", "dst">>,
    <<"cv_ximgproc_AdaptiveManifoldFilter_filter_const__InputArrayR_const__OutputArrayR_const__InputArrayR", "joint">>,
    <<"cv_ximgproc_DTFilter_filter_const__InputArrayR_const__OutputArrayR_int", "src">>,
    <<"cv_ximgproc_DTFilter_filter_const__InputArrayR_const__OutputArrayR_int", "dst">>,
    <<"cv_ximgproc_DisparityFilter_filter_const__InputArrayR_const__InputArrayR_const__OutputArrayR_const__InputArrayR_Rect_const__InputArrayR", "disparity_map_left">>,
    <<"cv_ximgproc_DisparityFilter_filter_const__InputArrayR_const__InputArrayR_const__OutputArrayR_const__InputArrayR_Rect_const__InputArrayR", "left_view">>,
    <<"cv_ximgproc_DisparityFilter_filter_const__InputArrayR_const__InputArrayR_const__OutputArrayR_const__InputArrayR_Rect_const__InputArrayR", "filtered_disparity_map">>,
    <<"cv_ximgproc_DisparityFilter_filter_const__InputArrayR_const__InputArrayR_const__OutputArrayR_const__InputArrayR_Rect_const__InputArrayR", "disparity_map_right">>,
    <<"cv_ximgproc_DisparityFilter_filter_const__InputArrayR_const__InputArrayR_const__OutputArrayR_const__InputArrayR_Rect_const__InputArrayR", "ROI">>,
    <<"cv_ximgproc_DisparityFilter_filter_const__InputArrayR_const__InputArrayR_const__OutputArrayR_const__InputArrayR_Rect_const__InputArrayR", "right_view">>,
    <<"cv_ximgproc_FastGlobalSmootherFilter_filter_const__InputArrayR_const__OutputArrayR", "src">>,
    <<"cv_ximgproc_FastGlobalSmootherFilter_filter_const__InputArrayR_const__OutputArrayR", "dst">>,
    <<"cv_ximgproc_FastLineDetector_detect_const__InputArrayR_const__OutputArrayR", "_image">>,
    <<"cv_ximgproc_FastLineDetector_detect_const__InputArrayR_const__OutputArrayR", "_lines">>,
    <<"cv_ximgproc_FastLineDetector_drawSegments_const__InputOutputArrayR_const__InputArrayR_bool", "_image">>,
    <<"cv_ximgproc_FastLineDetector_drawSegments_const__InputOutputArrayR_const__InputArrayR_bool", "lines">>,
    <<"cv_ximgproc_GuidedFilter_filter_const__InputArrayR_const__OutputArrayR_int", "src">>,
    <<"cv_ximgproc_GuidedFilter_filter_const__InputArrayR_const__OutputArrayR_int", "dst">>,
    <<"cv_ximgproc_RFFeatureGetter_getFeatures_const_const_MatR_MatR_int_int_int_int_int", "src">>,
    <<"cv_ximgproc_RFFeatureGetter_getFeatures_const_const_MatR_MatR_int_int_int_int_int", "features">>,
    <<"cv_ximgproc_SparseMatchInterpolator_interpolate_const__InputArrayR_const__InputArrayR_const__InputArrayR_const__InputArrayR_const__OutputArrayR", "from_image">>,
    <<"cv_ximgproc_SparseMatchInterpolator_interpolate_const__InputArrayR_const__InputArrayR_const__InputArrayR_const__InputArrayR_const__OutputArrayR", "from_points">>,
    <<"cv_ximgproc_SparseMatchInterpolator_interpolate_const__InputArrayR_const__InputArrayR_const__InputArrayR_const__InputArrayR_const__OutputArrayR", "to_image">>,
    <<"cv_ximgproc_SparseMatchInterpolator_interpolate_const__InputArrayR_const__InputArrayR_const__InputArrayR_const__InputArrayR_const__OutputArrayR", "to_points">>,
    <<"cv_ximgproc_SparseMatchInterpolator_interpolate_const__InputArrayR_const__InputArrayR_const__InputArrayR_const__InputArrayR_const__OutputArrayR", "dense_flow">>,
    <<"cv_ximgproc_StructuredEdgeDetection_detectEdges_const_const_MatR_MatR", "src">>,
    <<"cv_ximgproc_StructuredEdgeDetection_detectEdges_const_const_MatR_MatR", "dst">>,
    <<"cv_ximgproc_SuperpixelLSC_getLabels_const_const__OutputArrayR", "labels_out">>,
    <<"cv_ximgproc_SuperpixelLSC_getLabelContourMask_const_const__OutputArrayR_bool", "image">>,
    <<"cv_ximgproc_SuperpixelSEEDS_iterate_const__InputArrayR_int", "img">>,
    <<"cv_ximgproc_SuperpixelSEEDS_getLabels_const__OutputArrayR", "labels_out">>,
    <<"cv_ximgproc_SuperpixelSEEDS_getLabelContourMask_const__OutputArrayR_bool", "image">>,
    <<"cv_ximgproc_SuperpixelSLIC_getLabels_const_const__OutputArrayR", "labels_out">>,
    <<"cv_ximgproc_SuperpixelSLIC_getLabelContourMask_const_const__OutputArrayR_bool", "image">>,
    <<"cv_ximgproc_segmentation_GraphSegmentation_processImage_const__InputArrayR_const__OutputArrayR", "src">>,
    <<"cv_ximgproc_segmentation_GraphSegmentation_processImage_const__InputArrayR_const__OutputArrayR", "dst">>,
    <<"cv_ximgproc_segmentation_SelectiveSearchSegmentation_setBaseImage_const__InputArrayR", "img">>,
    <<"cv_ximgproc_segmentation_SelectiveSearchSegmentation_addImage_const__InputArrayR", "img">>,
    <<"cv_ximgproc_segmentation_SelectiveSearchSegmentation_addGraphSegmentation_Ptr_GraphSegmentation_", "g">>,
    <<"cv_ximgproc_segmentation_SelectiveSearchSegmentation_addStrategy_Ptr_SelectiveSearchSegmentationStrategy_", "s">>,
    <<"cv_ximgproc_segmentation_SelectiveSearchSegmentation_process_vector_Rect_R", "rects">>,
    <<"cv_ximgproc_segmentation_SelectiveSearchSegmentationStrategy_setImage_const__InputArrayR_const__InputArrayR_const__InputArrayR_int", "img">>,
    <<"cv_ximgproc_segmentation_SelectiveSearchSegmentationStrategy_setImage_const__InputArrayR_const__InputArrayR_const__InputArrayR_int", "regions">>,
    <<"cv_ximgproc_segmentation_SelectiveSearchSegmentationStrategy_setImage_const__InputArrayR_const__InputArrayR_const__InputArrayR_int", "sizes">>,
    <<"cv_ximgproc_segmentation_SelectiveSearchSegmentationStrategyMultiple_addStrategy_Ptr_SelectiveSearchSegmentationStrategy__float", "g">>
  }
(* The handle parameters of the entry points by name: <<entry point, i, p>> *)
(* when the i-th handle parameter (hargs[i]) is declared as p.              *)
HandleParameters ==
  {
    <<"cv_line_descriptor_BinaryDescriptor_BinaryDescriptor_const_ParamsR", 1, "parameters">>,
    <<"cv_line_descriptor_BinaryDescriptor_createBinaryDescriptor_Params", 1, "parameters">>,
    <<"cv_ximgproc_createDisparityWLSFilter_Ptr_StereoMatcher_", 1, "matcher_left">>,
    <<"cv_ximgproc_createRightMatcher_Ptr_StereoMatcher_", 1, "matcher_left">>,
    <<"cv_ximgproc_createStructuredEdgeDetection_const_StringR_Ptr_RFFeatureGetter_", 1, "howToGetFeatures">>,
    <<"cv_ximgproc_segmentation_createSelectiveSearchSegmentationStrategyMultiple_Ptr_SelectiveSearchSegmentationStrategy_", 1, "s1">>,
    <<"cv_ximgproc_segmentation_createSelectiveSearchSegmentationStrategyMultiple_Ptr_SelectiveSearchSegmentationStrategy__Ptr_SelectiveSearchSegmentationStrategy_", 1, "s1">>,
    <<"cv_ximgproc_segmentation_createSelectiveSearchSegmentationStrategyMultiple_Ptr_SelectiveSearchSegmentationStrategy__Ptr_SelectiveSearchSegmentationStrategy_", 2, "s2">>,
    <<"cv_ximgproc_segmentation_createSelectiveSearchSegmentationStrategyMultiple_Ptr_SelectiveSearchSegmentationStrategy__Ptr_SelectiveSearchSegmentationStrategy__Ptr_SelectiveSearchSegmentationStrategy_", 1, "s1">>,
    <<"cv_ximgproc_segmentation_createSelectiveSearchSegmentationStrategyMultiple_Ptr_SelectiveSearchSegmentationStrategy__Ptr_SelectiveSearchSegmentationStrategy__Ptr_SelectiveSearchSegmentationStrategy_", 2, "s2">>,
    <<"cv_ximgproc_segmentation_createSelectiveSearchSegmentationStrategyMultiple_Ptr_SelectiveSearchSegmentationStrategy__Ptr_SelectiveSearchSegmentationStrategy__Ptr_SelectiveSearchSegmentationStrategy_", 3, "s3">>,
    <<"cv_ximgproc_segmentation_createSelectiveSearchSegmentationStrategyMultiple_Ptr_SelectiveSearchSegmentationStrategy__Ptr_SelectiveSearchSegmentationStrategy__Ptr_SelectiveSearchSegmentationStrategy__Ptr_SelectiveSearchSegmentationStrategy_", 1, "s1">>,
    <<"cv_ximgproc_segmentation_createSelectiveSearchSegmentationStrategyMultiple_Ptr_SelectiveSearchSegmentationStrategy__Ptr_SelectiveSearchSegmentationStrategy__Ptr_SelectiveSearchSegmentationStrategy__Ptr_SelectiveSearchSegmentationStrategy_", 2, "s2">>,
    <<"cv_ximgproc_segmentation_createSelectiveSearchSegmentationStrategyMultiple_Ptr_SelectiveSearchSegmentationStrategy__Ptr_SelectiveSearchSegmentationStrategy__Ptr_SelectiveSearchSegmentationStrategy__Ptr_SelectiveSearchSegmentationStrategy_", 3, "s3">>,
    <<"cv_ximgproc_segmentation_createSelectiveSearchSegmentationStrategyMultiple_Ptr_SelectiveSearchSegmentationStrategy__Ptr_SelectiveSearchSegmentationStrategy__Ptr_SelectiveSearchSegmentationStrategy__Ptr_SelectiveSearchSegmentationStrategy_", 4, "s4">>,
    <<"cv_ximgproc_segmentation_SelectiveSearchSegmentation_addGraphSegmentation_Ptr_GraphSegmentation_", 1, "g">>,
    <<"cv_ximgproc_segmentation_SelectiveSearchSegmentation_addStrategy_Ptr_SelectiveSearchSegmentationStrategy_", 1, "s">>,
    <<"cv_ximgproc_segmentation_SelectiveSearchSegmentationStrategyMultiple_addStrategy_Ptr_SelectiveSearchSegmentationStrategy__float", 1, "g">>
  }
(* A generator fault: the destroy entry point of KeyLine is not emitted.    *)
EntryPointsWithoutKeyLineDelete ==
  {e \in LineDescriptorEntryPoints : e.name # "cv_KeyLine_delete"} \cup XimgprocEntryPoints

EntryPoints == LineDescriptorEntryPoints \cup XimgprocEntryPoints

(* The native class hierarchy the entry points rely on: an instance or a   *)
(* cv::Ptr of a derived class is passed where the base class is declared.  *)
Derives ==
  { <<"SelectiveSearchSegmentationStrategyColor", "SelectiveSearchSegmentationStrategy">>,
    <<"SelectiveSearchSegmentationStrategyFill", "SelectiveSearchSegmentationStrategy">>,
    <<"SelectiveSearchSegmentationStrategySize", "SelectiveSearchSegmentationStrategy">>,
    <<"SelectiveSearchSegmentationStrategyTexture", "SelectiveSearchSegmentationStrategy">>,
    <<"SelectiveSearchSegmentationStrategyMultiple", "SelectiveSearchSegmentationStrategy">>,
    <<"DisparityWLSFilter", "DisparityFilter">>,
    <<"EdgeAwareInterpolator", "SparseMatchInterpolator">> }

IsA(t, u) == t = u \/ <<t, u>> \in Derives

(* The native operations that drop every cv::Ptr the instance holds.       *)
ClearOps == {"clearStrategies", "clearGraphSegmentations"}

(* What a native operation can do: return, or throw one of the kinds of    *)
(* exception OCVRS_CATCH tells apart.                                      *)
Exceptions == {"cv::Exception", "std::exception", "other"}
Outcomes == {"returned"} \cup Exceptions

VARIABLES
  live,   \* the addresses allocated and not yet freed
  cell,   \* what each address holds: mode, type, and a box's target
  held,   \* the objects a native object holds a cv::Ptr copy of
  store,  \* the property values of each object
  ncalls, \* the calls the caller has made
  res,    \* the last call: its entry point, arguments and returned envelope
  stale,  \* the type of each released raw handle the caller still holds
  ub,     \* the undefined behaviour the program has run into, "" if none
  pc,     \* where each thread of the caller is in the entry point it called
  cur,    \* the call each thread is in: entry point, instance, native invocations
  mem,    \* the caller's own objects, one per parameter position, by content
  left,   \* what the native operation left in each of its arguments, last call
  alias,  \* the fields of each object that refer to memory of the caller
  snap,   \* the payload the caller took from the last envelope with a value
  prev    \* the record of the call before the last, when the caller kept it

(* What a caller that misuses the layer adds to the state.                 *)
misuse == <<stale, ub>>

(* What a caller that follows its calls statement by statement adds.       *)
threads == <<pc, cur>>

Threads == 1..MaxThreads
NoCall == [ep |-> "", inst |-> NULL, invoked |-> 0]

(* What the caller's own memory adds: the objects it passes by pointer and *)
(* the values it was returned.                                             *)
caller == <<mem, left, alias, snap, prev>>

(* The caller has one object per parameter position; location 0 stands for *)
(* the temporaries of the entry point.                                     *)
MaxParams ==
  CHOOSE n \in 0..16 :
    /\ \A e \in EntryPoints : Len(e.params) <= n
    /\ \E e \in EntryPoints : Len(e.params) = n
Temporary == 0
Contents == 0..MaxVal

vars == <<live, cell, held, store, ncalls, res, misuse, threads, caller>>

NoCell == [mode |-> "free", type |-> "", tgt |-> NULL]
NoProps == [p \in {} |-> NULL]

(* The value a native constructor leaves in a property nobody has set.     *)
NativeInit == MaxVal + 1

(* The properties the layer exposes of an object of type t.                *)
Props(t) == {e.prop : e \in {x \in EntryPoints : x.inst = t /\ x.prop # ""}}
InitProps(t) == [p \in Props(t) |-> NativeInit]

(* An allocator fault: the same address is handed out again.               *)
FreshReused(L) == 1

(* operator new: the lowest free address, NULL when the heap is exhausted  *)
(* (the new-expression then throws std::bad_alloc).                        *)
Fresh(L) == IF Addr \ L = {} THEN NULL
            ELSE CHOOSE a \in Addr \ L : \A b \in Addr \ L : a <= b

(* A fault: the body hands the native operation the plain pointer          *)
(* (s->get()), so the reference the receiving object keeps is not counted. *)
HoldersBoxesOnly(o, L, C, H) == {b \in L : C[b].mode = "box" /\ C[b].tgt = o}

(* cv::Ptr is reference counted: an object behind a cv::Ptr is freed when  *)
(* the last cv::Ptr to it is destroyed, and the cv::Ptr copies it held are *)
(* destroyed with it.                                                      *)
Holders(o, L, C, H) ==
  {b \in L : C[b].mode = "box" /\ C[b].tgt = o} \cup {w \in L : o \in H[w]}

RECURSIVE Sweep(_, _, _)
Sweep(L, C, H) ==
  LET dead == {o \in L : C[o].mode = "obj" /\ Holders(o, L, C, H) = {}}
  IN  IF dead = {} THEN L ELSE Sweep(L \ dead, C, H)

Commit(L, C, H, S) ==
  LET L2 == Sweep(L, C, H) IN
  /\ live' = L2
  /\ cell' = [a \in Addr |-> IF a \in L2 THEN C[a] ELSE NoCell]
  /\ held' = [a \in Addr |-> IF a \in L2 THEN H[a] ELSE {}]
  /\ store' = [a \in Addr |-> IF a \in L2 THEN S[a] ELSE NoProps]

(* The handles the caller holds: raw object pointers, cv::Ptr<T>* boxes    *)
(* and cv::Mat* headers.                                                   *)
CallerHandles(L, C) == {a \in L : C[a].mode \in {"raw", "box", "mat"}}

(* The objects the caller can name: a raw handle is the object's address,  *)
(* a cv::Ptr handle gives the address of the object it refers to.          *)
CallerHolds(a) ==
  \/ cell[a].mode = "raw"
  \/ \E b \in live : cell[b].mode = "box" /\ cell[b].tgt = a

Instances(t) ==
  {a \in live : cell[a].mode \in {"raw", "obj"} /\ IsA(cell[a].type, t) /\ CallerHolds(a)}

Handles(h) ==
  IF h[1] = "raw"
  THEN {a \in live : cell[a].mode = "raw" /\ cell[a].type = h[2]}
  ELSE {b \in live : cell[b].mode = "box" /\ IsA(cell[b].type, h[2])}

HandleArgs(ep) ==
  {hs \in [1..Len(ep.hargs) -> Addr] : \A i \in 1..Len(ep.hargs) : hs[i] \in Handles(ep.hargs[i])}

(* A marshalling fault: the native operation is handed the caller's        *)
(* pointers themselves, raw handles included, and may keep any of them.    *)
TargetsByAddress(ep, hs) ==
  {IF ep.hargs[i][1] = "ptr" THEN cell[hs[i]].tgt ELSE hs[i] : i \in 1..Len(ep.hargs)}

(* What the native operation may keep of the handle arguments.  A cv::Ptr  *)
(* argument is passed as `*s`, a cv::Ptr the native operation may copy and *)
(* keep: the object behind it.  A raw argument is passed as `*parameters`  *)
(* to a const reference, of which the native operation takes a copy.       *)
Targets(ep, hs) ==
  {cell[hs[i]].tgt : i \in {j \in 1..Len(ep.hargs) : ep.hargs[j][1] = "ptr"}}

(* A fault: the entry point deletes the handles it was passed.             *)
FreedArgs(ep, hs) == {hs[i] : i \in 1..Len(ep.hargs)}

(* The handles an entry point other than cv_*_delete frees: its body holds *)
(* no delete statement, the handles it is passed are only dereferenced.    *)
Freed(ep, hs) == {}

(* A marshalling fault: the arguments are forwarded in reverse order.      *)
ForwardReversed(ep, args) ==
  [i \in 1..Len(ep.fwd) |-> args[Len(ep.fwd) + 1 - i]]

(* The argument list the entry point hands to the native operation, from   *)
(* the arguments it was called with (args[i] is the value of params[i]).   *)
Position(names, n) == CHOOSE i \in 1..Len(names) : names[i] = n
Forward(ep, args) == [i \in 1..Len(ep.fwd) |-> args[Position(ep.params, ep.fwd[i])]]

(* The caller passes a distinct value for each parameter.                  *)
Tokens(ep) == [i \in 1..Len(ep.params) |-> i]

(* A fault: the body runs outside any try block.                           *)
Unguarded(ep) == FALSE

(* Whether the body of the entry point is try { ... } OCVRS_CATCH.         *)
Guarded(ep) == ep.guarded

(* Ok(...) and OCVRS_CATCH of common.hpp: the two arms of the envelope.    *)
Ok(h, v) == [tag |-> "ok", handle |-> h, value |-> v, code |-> "", msg |-> ""]

OCVRS_CATCH(exc) ==
  [tag |-> "err", handle |-> NULL, value |-> <<>>,
   code |-> IF exc = "cv::Exception" THEN "e.code" ELSE "generic",
   msg |-> IF exc = "other" THEN "unspecified" ELSE "e.what()"]

(* A function declared void hands the caller no envelope.                  *)
NoEnvelope == [tag |-> "none", handle |-> NULL, value |-> <<>>, code |-> "", msg |-> ""]

(* The record of a call: the entry point, what it was given, what the      *)
(* native side did and the envelope env the caller got back.               *)
Called(ep, native, wrapper, inst, hs, passed, env) ==
  [ep |-> ep.name, act |-> ep.act, ret |-> ep.ret,
   native |-> native, wrapper |-> wrapper,
   escaped |-> ((native # "returned" \/ wrapper # "returned") /\ env.tag = "none"),
   inst |-> inst, args |-> hs, passed |-> passed, pre |-> live,
   tag |-> env.tag, handle |-> env.handle, value |-> env.value,
   code |-> env.code, msg |-> env.msg]

(* A fault: the catch block reports success.                               *)
ReturnOkOnThrow(ep, native, wrapper, inst, hs, passed, h, v) ==
  Called(ep, native, wrapper, inst, hs, passed,
         IF ep.ret = "none" THEN NoEnvelope ELSE Ok(h, v))

(* A fault: the catch block throws the exception on.                       *)
ReturnRethrows(ep, native, wrapper, inst, hs, passed, h, v) ==
  Called(ep, native, wrapper, inst, hs, passed,
         IF native = "returned" /\ wrapper = "returned" /\ ep.ret # "none"
         THEN Ok(h, v) ELSE NoEnvelope)

(* A fault: the error record of an entry point that returns no payload     *)
(* carries no message.                                                     *)
ReturnBareError(ep, native, wrapper, inst, hs, passed, h, v) ==
  LET thrown == IF native # "returned" THEN native ELSE wrapper
  IN  Called(ep, native, wrapper, inst, hs, passed,
             IF thrown = "returned"
             THEN (IF ep.ret = "none" THEN NoEnvelope ELSE Ok(h, v))
             ELSE IF ep.ret = "void" THEN [OCVRS_CATCH(thrown) EXCEPT !.msg = ""]
             ELSE OCVRS_CATCH(thrown))

(* What the caller gets back: native is the native operation's outcome,    *)
(* wrapper the outcome of the statements the entry point runs after it.    *)
(* try { ...; return Ok(ret); } OCVRS_CATCH(...): an exception thrown in   *)
(* the try block ends in the catch arm; with no try block it leaves the    *)
(* function.                                                               *)
Return(ep, native, wrapper, inst, hs, passed, h, v) ==
  LET thrown == IF native # "returned" THEN native ELSE wrapper
  IN  Called(ep, native, wrapper, inst, hs, passed,
             IF thrown = "returned"
             THEN (IF ep.ret = "none" THEN NoEnvelope ELSE Ok(h, v))
             ELSE IF Guarded(ep) THEN OCVRS_CATCH(thrown) ELSE NoEnvelope)

Init ==
  /\ live = {}
  /\ cell = [a \in Addr |-> NoCell]
  /\ held = [a \in Addr |-> {}]
  /\ store = [a \in Addr |-> NoProps]
  /\ ncalls = 0
  /\ stale = [a \in Addr |-> ""]
  /\ ub = ""
  /\ pc = [t \in Threads |-> "idle"]
  /\ mem = [i \in 0..MaxParams |-> 0]
  /\ left = [i \in 1..MaxParams |-> 0]
  /\ alias = [a \in Addr |-> {}]
  /\ snap = <<>>
  /\ prev = [ep |-> "", act |-> "", inst |-> NULL, passed |-> <<>>, tag |-> "none", value |-> <<>>]
  /\ cur = [t \in Threads |-> NoCall]
  /\ res = [ep |-> "", act |-> "", ret |-> "", native |-> "notrun", wrapper |-> "returned",
            escaped |-> FALSE, inst |-> NULL, args |-> <<>>, passed |-> <<>>, pre |-> {},
            tag |-> "none", handle |-> NULL, value |-> <<>>, code |-> "", msg |-> ""]

(* A fault: what the body had allocated when the exception was thrown      *)
(* stays allocated.                                                        *)
LeakedOnThrow(ep, o) == IF o = NULL THEN {} ELSE {o}

(* What stays allocated, of the object o the body was making, when the     *)
(* body is left by an exception: a new-expression whose constructor throws *)
(* frees the memory it took, and the local `ret` (a cv::Ptr<T> or cv::Mat) *)
(* is destroyed when the stack is unwound, which frees the object it alone *)
(* refers to.                                                              *)
Leaked(ep, o) == {}

(* The allocations after a body was left by an exception.                  *)
Abandon(ep, o) ==
  LET lost == Leaked(ep, o) IN
  Commit(live \cup lost,
         [a \in Addr |-> IF a \in lost
                         THEN [mode |-> "lost", type |-> ep.rtype, tgt |-> NULL]
                         ELSE cell[a]],
         held, store)

(* T* ret = new T(args); return Ok(ret);                                   *)
CallNew(ep) ==
  /\ ep.act = "new"
  /\ \E hs \in HandleArgs(ep), out \in Outcomes :
     \E keep \in SUBSET Targets(ep, hs) :
       LET a == Fresh(live)
           native == IF out = "returned" /\ a = NULL THEN "std::exception" ELSE out
           passed == Forward(ep, Tokens(ep))
       IN  IF native = "returned"
           THEN /\ Commit((live \cup {a}) \ Freed(ep, hs),
                          [cell EXCEPT ![a] = [mode |-> "raw", type |-> ep.rtype, tgt |-> NULL]],
                          [held EXCEPT ![a] = keep],
                          [store EXCEPT ![a] = InitProps(ep.rtype)])
                /\ res' = Return(ep, native, "returned", NULL, hs, passed, a, <<>>)
           ELSE /\ Abandon(ep, a)
                /\ res' = Return(ep, native, "returned", NULL, hs, passed, NULL, <<>>)

(* A fault: a cv::Ptr copy made in the body is never destroyed (written    *)
(* as the object holding a reference to itself).                           *)
SurvivingCopy(ep, o) == {o}

(* The cv::Ptr copies of the body that outlive a successful return, beside *)
(* the one behind the returned handle: `ret` is a local with automatic     *)
(* storage, destroyed when the function returns.                           *)
Surviving(ep, o) == {}

(* cv::Ptr<T> ret = create...(args); return Ok(new cv::Ptr<T>(ret));       *)
(* The native factory allocates the object; the entry point then allocates *)
(* the cv::Ptr it returns, which can fail (boxed = FALSE, or no address    *)
(* left) after the factory has returned.                                   *)
CallFactory(ep) ==
  /\ ep.act = "call" /\ ep.wrap = "Ptr"
  /\ \E hs \in HandleArgs(ep), out \in Outcomes, boxed \in BOOLEAN :
     \E keep \in SUBSET Targets(ep, hs) :
       LET o == Fresh(live)
           b == IF o = NULL THEN NULL ELSE Fresh(live \cup {o})
           native == IF out = "returned" /\ o = NULL THEN "std::exception" ELSE out
           wrapper == IF native = "returned" /\ (b = NULL \/ ~boxed)
                      THEN "std::exception" ELSE "returned"
           passed == Forward(ep, Tokens(ep))
       IN  IF native = "returned" /\ wrapper = "returned"
           THEN /\ Commit((live \cup {o, b}) \ Freed(ep, hs),
                          [cell EXCEPT ![o] = [mode |-> "obj", type |-> ep.rtype, tgt |-> NULL],
                                       ![b] = [mode |-> "box", type |-> ep.rtype, tgt |-> o]],
                          [held EXCEPT ![o] = keep \cup Surviving(ep, o)],
                          [store EXCEPT ![o] = InitProps(ep.rtype)])
                /\ res' = Return(ep, native, wrapper, NULL, hs, passed, b, <<>>)
           ELSE \* `ret` is destroyed on the way out: the object it alone held is freed
                /\ Abandon(ep, o)
                /\ res' = Return(ep, native, wrapper, NULL, hs, passed, NULL, <<>>)

(* cv::Mat ret = instance->getConfidenceMap(); return Ok(new cv::Mat(ret)); *)
CallMatCopy(ep) ==
  /\ ep.act = "call" /\ ep.wrap = "Mat"
  /\ \E inst \in Instances(ep.inst), out \in Outcomes, boxed \in BOOLEAN :
       LET m == Fresh(live)
           wrapper == IF out = "returned" /\ (m = NULL \/ ~boxed)
                      THEN "std::exception" ELSE "returned"
           passed == Forward(ep, Tokens(ep))
       IN  IF out = "returned" /\ wrapper = "returned"
           THEN /\ Commit(live \cup {m},
                          [cell EXCEPT ![m] = [mode |-> "mat", type |-> ep.rtype, tgt |-> NULL]],
                          held, store)
                /\ res' = Return(ep, out, wrapper, inst, <<>>, passed, m, <<>>)
           ELSE /\ Abandon(ep, m)
                /\ res' = Return(ep, out, wrapper, inst, <<>>, passed, NULL, <<>>)

(* A fault: the destroy entry point returns without `delete instance`.     *)
CallDeleteLeaks(ep) ==
  /\ ep.act = "delete"
  /\ \E h \in {a \in live : cell[a].mode = "raw" /\ cell[a].type = ep.atype} :
       /\ UNCHANGED <<live, cell, held, store>>
       /\ res' = Return(ep, "returned", "returned", h, <<>>, <<>>, NULL, <<>>)

(* void cv_T_delete(T* instance) { delete instance; }                      *)
(* The destructors of the wrapped classes do not throw.                    *)
CallDelete(ep) ==
  /\ ep.act = "delete"
  /\ \E h \in {a \in live : cell[a].mode = "raw" /\ cell[a].type = ep.atype} :
       /\ Commit(live \ {h}, cell, held, store)
       /\ res' = Return(ep, "returned", "returned", h, <<>>, <<>>, NULL, <<>>)

(* The destroy entry points of the cv::Ptr<T>* and cv::Mat* handles, which *)
(* the *_types.hpp headers and the core module define:                     *)
(* void cv_PtrOfT_delete(cv::Ptr<T>* instance) { delete instance; }        *)
TypesHppDestroy ==
  {[name |-> "cv_PtrOf" \o e.rtype \o "_delete", mode |-> "box", atype |-> e.rtype] :
     e \in {x \in EntryPoints : x.wrap = "Ptr"}}
  \cup {[name |-> "cv_Mat_delete", mode |-> "mat", atype |-> "Mat"]}

DestroyRecord(d) ==
  EP(d.name, FALSE, "none", "", "", "", "delete", "delete", "delete", <<>>, <<>>, <<>>, d.atype, "")

CallTypesDelete(d) ==
  \E h \in {a \in live : cell[a].mode = d.mode /\ cell[a].type = d.atype} :
    /\ Commit(live \ {h}, cell, held, store)
    /\ res' = Return(DestroyRecord(d), "returned", "returned", h, <<>>, <<>>, NULL, <<>>)

(* A cv::Ptr<cv::StereoMatcher>* the caller got from another module of the *)
(* bindings (the stereo matchers are created there).                       *)
StereoMatcherFactory ==
  EP("cv_StereoBM_create", TRUE, "handle", "Ptr", "StereoMatcher", "", "call",
     "create", "create", <<>>, <<>>, <<>>, "", "")

CallOtherModule == CallFactory(StereoMatcherFactory)

(* A fault: the getter hands the value out and resets the field.           *)
CallGetFieldClears(ep) ==
  /\ ep.act = "getfield"
  /\ \E inst \in Instances(ep.inst) :
       /\ res' = Return(ep, "returned", "returned", inst, <<>>, <<>>, NULL, <<store[inst][ep.callee]>>)
       /\ store' = [store EXCEPT ![inst][ep.callee] = 0]
  /\ UNCHANGED <<live, cell, held>>

(* A fault: the layer keeps a count of the calls made through it and the   *)
(* getter answers with it.                                                 *)
CallGetFieldCounted(ep) ==
  /\ ep.act = "getfield"
  /\ \E inst \in Instances(ep.inst) :
       res' = Return(ep, "returned", "returned", inst, <<>>, <<>>, NULL, <<ncalls>>)
  /\ UNCHANGED <<live, cell, held, store>>

(* ret = instance->field; return Ok(ret);                                  *)
CallGetField(ep) ==
  /\ ep.act = "getfield"
  /\ \E inst \in Instances(ep.inst) :
       res' = Return(ep, "returned", "returned", inst, <<>>, <<>>, NULL, <<store[inst][ep.callee]>>)
  /\ UNCHANGED <<live, cell, held, store>>

(* A fault: the assignment is missing from the body.                       *)
CallSetFieldDropped(ep) ==
  /\ ep.act = "setfield"
  /\ \E inst \in Instances(ep.inst), val \in Vals :
       res' = Return(ep, "returned", "returned", inst, <<>>, <<val>>, NULL, <<>>)
  /\ UNCHANGED <<live, cell, held, store>>

(* A fault: the setter rejects a negative value with an error.             *)
CallSetFieldValidated(ep) ==
  /\ ep.act = "setfield"
  /\ \E inst \in Instances(ep.inst), val \in Vals :
       IF val < 0
       THEN /\ res' = Return(ep, "cv::Exception", "returned", inst, <<>>, <<val>>, NULL, <<>>)
            /\ UNCHANGED <<live, cell, held, store>>
       ELSE /\ store' = [store EXCEPT ![inst][ep.callee] = val]
            /\ res' = Return(ep, "returned", "returned", inst, <<>>, <<val>>, NULL, <<>>)
            /\ UNCHANGED <<live, cell, held>>

(* A fault: the field lives in one place shared by all objects of the      *)
(* class (a file-scope variable of the layer), so a set through one handle *)
(* shows through every other.                                              *)
CallSetFieldShared(ep) ==
  /\ ep.act = "setfield"
  /\ \E inst \in Instances(ep.inst), val \in Vals :
       /\ store' = [a \in Addr |->
                      IF a \in live /\ cell[a].type = cell[inst].type
                      THEN [store[a] EXCEPT ![ep.callee] = val] ELSE store[a]]
       /\ res' = Return(ep, "returned", "returned", inst, <<>>, <<val>>, NULL, <<>>)
  /\ UNCHANGED <<live, cell, held>>

(* A fault: the setter assigns to another field of the object than the one *)
(* its name encodes.                                                       *)
CallSetFieldCrossWired(ep) ==
  /\ ep.act = "setfield"
  /\ \E inst \in Instances(ep.inst), val \in Vals :
       LET other == CHOOSE f \in DOMAIN store[inst] : f # ep.callee
       IN  /\ store' = [store EXCEPT ![inst][other] = val]
           /\ res' = Return(ep, "returned", "returned", inst, <<>>, <<val>>, NULL, <<>>)
  /\ UNCHANGED <<live, cell, held>>

(* instance->field = val; return Ok();                                     *)
CallSetField(ep) ==
  /\ ep.act = "setfield"
  /\ \E inst \in Instances(ep.inst), val \in Vals :
       /\ store' = [store EXCEPT ![inst][ep.callee] = val]
       /\ res' = Return(ep, "returned", "returned", inst, <<>>, <<val>>, NULL, <<>>)
  /\ UNCHANGED <<live, cell, held>>

(* What the native operation returns: for a getX of a getX/setX pair of    *)
(* one class the property X of the object, otherwise a value fixed by the  *)
(* operation and the arguments it is given.                                *)
NativeValue(ep, S, inst, args) ==
  IF ep.prop # "" THEN <<S[inst][ep.prop]>> ELSE <<Len(args)>> \o args

IsSetter(ep) == ep.prop # "" /\ ep.ret = "void"

(* ret = instance->method(args) or ret = function(args), then Ok(ret) or   *)
(* Ok(), for the entry points that return no handle.                       *)
CallMethod(ep) ==
  /\ ep.act = "call" /\ ep.wrap = ""
  /\ \E inst \in (IF ep.inst = "" THEN {NULL} ELSE Instances(ep.inst)),
        hs \in HandleArgs(ep), out \in Outcomes,
        val \in (IF IsSetter(ep) THEN Vals ELSE {NULL}) :
     \E keep \in (IF inst = NULL THEN {{}} ELSE SUBSET Targets(ep, hs)) :
       LET passed == IF IsSetter(ep) THEN <<val>> ELSE Forward(ep, Tokens(ep))
           H2 == IF inst = NULL THEN held
                 ELSE [held EXCEPT ![inst] =
                         IF ep.callee \in ClearOps THEN {} ELSE @ \cup keep]
           S2 == IF IsSetter(ep) THEN [store EXCEPT ![inst][ep.prop] = val] ELSE store
       IN  IF out = "returned"
           THEN /\ Commit(live \ Freed(ep, hs), cell, H2, S2)
                /\ res' = Return(ep, out, "returned", inst, hs, passed, NULL,
                                 IF ep.ret = "value"
                                 THEN NativeValue(ep, store, inst, passed) ELSE <<>>)
           ELSE /\ UNCHANGED <<live, cell, held, store>>
                /\ res' = Return(ep, out, "returned", inst, hs, passed, NULL, <<>>)

(* The caller makes at most n calls.                                       *)
Tick(n) == ncalls < n /\ ncalls' = ncalls + 1

(* A call of a caller that keeps to the contract: it passes live handles   *)
(* only, from one thread.                                                  *)
Step(n) == Tick(n) /\ UNCHANGED <<misuse, threads, caller>>

Next ==
  \/ Step(MaxCalls) /\ \E ep \in EntryPoints : CallNew(ep)
  \/ Step(MaxCalls) /\ \E ep \in EntryPoints : CallFactory(ep)
  \/ Step(MaxCalls) /\ \E ep \in EntryPoints : CallMatCopy(ep)
  \/ Step(MaxCalls) /\ \E ep \in EntryPoints : CallDelete(ep)
  \/ Step(MaxCalls) /\ \E ep \in EntryPoints : CallGetField(ep)
  \/ Step(MaxCalls) /\ \E ep \in EntryPoints : CallSetField(ep)
  \/ Step(MaxCalls) /\ \E ep \in EntryPoints : CallMethod(ep)
  \/ Step(MaxCalls) /\ \E d \in TypesHppDestroy : CallTypesDelete(d)
  \/ Step(MaxCalls) /\ CallOtherModule

Spec == Init /\ [][Next]_vars

(* The entry points that read or change what the model keeps of an object: *)
(* the property accessors, the operations that take or drop handles and    *)
(* getConfidenceMap, with the entry points that make and destroy the       *)
(* objects they work on.                                                   *)
Stateful(ep) ==
  ep.prop # "" \/ ep.hargs # <<>> \/ ep.callee \in ClearOps \/ ep.wrap = "Mat"

ObjectTypes ==
  {e.inst : e \in {x \in EntryPoints : Stateful(x) /\ x.inst # ""}}
  \cup {e.rtype : e \in {x \in EntryPoints : Stateful(x) /\ x.rtype # ""}}
  \cup UNION {{e.hargs[i][2] : i \in 1..Len(e.hargs)} : e \in EntryPoints}

ObjectEntryPoints ==
  {e \in EntryPoints :
     \/ Stateful(e)
     \/ e.ret = "handle" /\ \E t \in ObjectTypes : IsA(e.rtype, t)
     \/ e.act = "delete" /\ e.atype \in ObjectTypes}

NextObjects ==
  \/ Step(MaxObjectCalls) /\ \E ep \in ObjectEntryPoints : CallNew(ep)
  \/ Step(MaxObjectCalls) /\ \E ep \in ObjectEntryPoints : CallFactory(ep)
  \/ Step(MaxObjectCalls) /\ \E ep \in ObjectEntryPoints : CallMatCopy(ep)
  \/ Step(MaxObjectCalls) /\ \E ep \in ObjectEntryPoints : CallDelete(ep)
  \/ Step(MaxObjectCalls) /\ \E ep \in ObjectEntryPoints : CallGetField(ep)
  \/ Step(MaxObjectCalls) /\ \E ep \in ObjectEntryPoints : CallSetField(ep)
  \/ Step(MaxObjectCalls) /\ \E ep \in ObjectEntryPoints : CallMethod(ep)
  \/ Step(MaxObjectCalls) /\ \E d \in TypesHppDestroy : CallTypesDelete(d)
  \/ Step(MaxObjectCalls) /\ CallOtherModule

SpecObjects == Init /\ [][NextObjects]_vars


(***************************************************************************)
(* A caller that passes released handles.                                  *)
(***************************************************************************)

(* The caller keeps the value of a raw handle after it has destroyed it;   *)
(* the value is a valid handle again once the allocator has handed the     *)
(* address out anew.                                                       *)
CallerRemembers ==
  stale' = [a \in Addr |->
              IF a \in live'
              THEN ""
              ELSE IF a \in live /\ cell[a].mode = "raw" THEN cell[a].type ELSE stale[a]]

Dangling(t) == {a \in Addr \ live : stale[a] # "" /\ IsA(stale[a], t)}

(* A fault: the layer keeps a record of the handles it returned and tests  *)
(* `instance` against it.                                                  *)
DetectsReleased(ep, h) == h \notin live

(* Whether the entry point tests `instance` before it uses it: the body is *)
(* `delete instance;` or one statement on `instance->`, with no test, and  *)
(* the file holds no record of the handles returned.                       *)
Detects(ep, h) == FALSE

(* What a build can do when freed memory is read, written or freed again:  *)
(* go on as if the object were there, with whatever the memory holds, or   *)
(* be stopped by the platform; native code run on it may also throw.       *)
UndefinedOutcomes(ep) ==
  IF ep.act = "call" THEN Outcomes \cup {"crashed"} ELSE {"returned", "crashed"}

UndefinedValues == Vals \cup {NativeInit}

(* An entry point called with a released handle as `instance`.             *)
CallReleased(ep) ==
  /\ ep.act \in {"delete", "getfield", "setfield"} \/ (ep.act = "call" /\ ep.inst # "")
  /\ \E h \in Dangling(IF ep.act = "delete" THEN ep.atype ELSE ep.inst),
        out \in UndefinedOutcomes(ep), v \in UndefinedValues :
       LET passed == IF ep.act = "setfield" \/ IsSetter(ep) THEN <<v>> ELSE Forward(ep, Tokens(ep))
       IN  IF Detects(ep, h)
           THEN /\ ub' = ub
                /\ res' = Return(ep, "std::exception", "returned", h, <<>>, passed, NULL, <<>>)
           ELSE /\ ub' = IF ep.act = "delete" THEN "double free" ELSE "use after free"
                /\ res' = IF out = "crashed"
                          THEN \* a signal is no C++ exception: no catch arm runs
                               Called(ep, out, "returned", h, <<>>, passed, NoEnvelope)
                          ELSE Return(ep, out, "returned", h, <<>>, passed, NULL,
                                      IF ep.ret = "value" THEN <<v>> ELSE <<>>)
  /\ UNCHANGED <<live, cell, held, store, stale>>

(* The classes whose handles are plain pointers to the object, and the     *)
(* entry points that make, use and destroy them.                           *)
RawTypes == {e.rtype : e \in {x \in EntryPoints : x.wrap = "raw"}}

RawEntryPoints ==
  {e \in EntryPoints :
     \/ e.wrap = "raw"
     \/ e.act = "delete"
     \/ e.inst \in RawTypes /\ e.wrap = "" /\ e.hargs = <<>>}

(* A call that keeps to the contract, made by a caller that remembers the  *)
(* handles it destroys; nothing is defined once undefined behaviour has    *)
(* happened.                                                               *)
Defined(n) == ub = "" /\ Tick(n) /\ ub' = ub /\ UNCHANGED <<threads, caller>>

NextReleased ==
  \/ Defined(MaxObjectCalls) /\ (\E ep \in RawEntryPoints : CallNew(ep)) /\ CallerRemembers
  \/ Defined(MaxObjectCalls) /\ (\E ep \in RawEntryPoints : CallDelete(ep)) /\ CallerRemembers
  \/ Defined(MaxObjectCalls) /\ (\E ep \in RawEntryPoints : CallGetField(ep)) /\ CallerRemembers
  \/ Defined(MaxObjectCalls) /\ (\E ep \in RawEntryPoints : CallSetField(ep)) /\ CallerRemembers
  \/ Defined(MaxObjectCalls) /\ (\E ep \in RawEntryPoints : CallMethod(ep)) /\ CallerRemembers
  \/ ub = "" /\ Tick(MaxObjectCalls) /\ (\E ep \in RawEntryPoints : CallReleased(ep))
        /\ UNCHANGED <<threads, caller>>

SpecReleased == Init /\ [][NextReleased]_vars

(***************************************************************************)
(* A call followed statement by statement, from one or more threads of the *)
(* caller: the call is entered, the one statement of the body that does    *)
(* the work is started and completes, and the function returns.            *)
(***************************************************************************)

(* The handles a caller that keeps to the contract passes as `instance`.   *)
Receivers(ep) ==
  IF ep.act = "delete"
  THEN {a \in live : cell[a].mode = "raw" /\ cell[a].type = ep.atype}
  ELSE IF ep.inst = "" THEN {NULL} ELSE Instances(ep.inst)

(* Thread t calls ep.                                                      *)
Begin(t, ep) ==
  /\ ub = ""
  /\ pc[t] = "idle"
  /\ \E inst \in Receivers(ep) :
       cur' = [cur EXCEPT ![t] = [ep |-> ep.name, inst |-> inst, invoked |-> 0]]
  /\ pc' = [pc EXCEPT ![t] = "try"]
  /\ UNCHANGED <<live, cell, held, store, res, misuse, caller>>

(* A fault: the body takes a lock on the object before it works on it.     *)
BlockedByLock(t) ==
  \E u \in Threads \ {t} :
    pc[u] = "native" /\ cur[u].inst # NULL /\ cur[u].inst = cur[t].inst

(* Whether thread t has to wait before the statement that does the work:   *)
(* the bodies take no lock and wait for nothing.                           *)
Blocked(t) == FALSE

(* The native operation (or field access, or delete) of the body starts.   *)
Invoke(t) ==
  /\ ub = ""
  /\ pc[t] = "try"
  /\ ~Blocked(t)
  /\ pc' = [pc EXCEPT ![t] = "native"]
  /\ cur' = [cur EXCEPT ![t].invoked = @ + 1]
  /\ UNCHANGED <<live, cell, held, store, ncalls, res, misuse, caller>>

(* The statement that does the work, by the kind of body.                  *)
Perform(ep) ==
  \/ CallNew(ep)
  \/ CallFactory(ep)
  \/ CallMatCopy(ep)
  \/ CallDelete(ep)
  \/ CallGetField(ep)
  \/ CallSetField(ep)
  \/ CallMethod(ep)

(* Whether the entry point writes the object it is given.                  *)
Writes(ep) == ep.act \in {"delete", "setfield"} \/ (ep.act = "call" /\ ep.ret # "value")

(* Another thread is inside the work of a call on the same object, and one *)
(* of the two writes it: a data race.                                      *)
Races(t) ==
  \E u \in Threads \ {t} :
    /\ pc[u] = "native"
    /\ cur[t].inst # NULL /\ cur[u].inst = cur[t].inst
    /\ \E e \in EntryPoints, f \in EntryPoints :
         e.name = cur[t].ep /\ f.name = cur[u].ep /\ (Writes(e) \/ Writes(f))

(* A fault: the catch arm runs the try block again.                        *)
AfterThrowRetry == "try"

(* Where control goes from the catch arm of OCVRS_CATCH: out of the        *)
(* function; the body holds no loop around the try block.                  *)
AfterThrow == "done"

(* The work of the call of thread t completes: it returns or throws, and   *)
(* the envelope is built.  On an object another thread has freed meanwhile *)
(* it is a use of a released handle.                                       *)
CompleteCall(t) ==
  /\ ub = ""
  /\ pc[t] = "native"
  /\ \E ep \in EntryPoints :
       /\ ep.name = cur[t].ep
       /\ IF cur[t].inst = NULL \/ cur[t].inst \in live
          THEN /\ Perform(ep)
               /\ res'.inst = cur[t].inst
               /\ CallerRemembers
               /\ ub' = IF Races(t) THEN "data race" ELSE ub
          ELSE /\ CallReleased(ep)
               /\ res'.inst = cur[t].inst
  /\ pc' = [pc EXCEPT ![t] = IF res'.tag = "err" THEN AfterThrow ELSE "done"]
  /\ UNCHANGED <<ncalls, cur>>

Complete(t) == CompleteCall(t) /\ UNCHANGED caller

(* The function returns to the caller.                                     *)
Leave(t) ==
  /\ ub = ""
  /\ pc[t] = "done"
  /\ pc' = [pc EXCEPT ![t] = "idle"]
  /\ UNCHANGED <<live, cell, held, store, ncalls, res, misuse, cur, caller>>

(* One thread, any entry point.                                            *)
NextSteps ==
  \/ Tick(MaxCalls) /\ \E ep \in EntryPoints : Begin(1, ep)
  \/ Invoke(1)
  \/ Complete(1)
  \/ Leave(1)

SpecSteps == Init /\ [][NextSteps]_vars

(* Several threads that hold the same KeyLine handles.                     *)
RacingProps == {"angle", "pt"}

RacingEntryPoints ==
  {e \in EntryPoints :
     \/ e.rtype = "KeyLine"
     \/ e.atype = "KeyLine"
     \/ e.inst = "KeyLine" /\ e.prop \in RacingProps}

NextThreads ==
  \/ Tick(MaxObjectCalls) /\ \E t \in Threads, ep \in RacingEntryPoints : Begin(t, ep)
  \/ \E t \in Threads : Invoke(t)
  \/ \E t \in Threads : Complete(t)
  \/ \E t \in Threads : Leave(t)

SpecThreads == Init /\ [][NextThreads]_vars

(***************************************************************************)
(* The objects of the caller that a call is given by pointer.              *)
(***************************************************************************)

(* The positions of the output parameters of an entry point.               *)
Outs(ep) ==
  {i \in 1..Len(ep.params) : <<ep.name, ep.params[i]>> \in OutputParameters}

(* A fault: the native operation is given a buffer of the entry point's    *)
(* own in place of the caller's object.                                    *)
BoundToBuffer(i) == Temporary

(* The object the native operation's reference parameter is bound to when  *)
(* the argument is written `*name`: the caller's object itself.            *)
Bound(i) == i

(* The native operation writes what it likes through its output arguments, *)
(* whether it then returns or throws; the body has no statement after it   *)
(* that touches them, and the catch arm none.                              *)
NativeWrites(ep) ==
  \E w \in [Outs(ep) -> Contents] :
    /\ left' = [i \in 1..MaxParams |-> IF i \in Outs(ep) THEN w[i] ELSE mem[i]]
    /\ mem' = [o \in 0..MaxParams |->
                 IF \E i \in Outs(ep) : Bound(i) = o
                 THEN w[CHOOSE i \in Outs(ep) : Bound(i) = o]
                 ELSE mem[o]]

(* The entry points with output parameters, and those that make the        *)
(* objects they are methods of.                                            *)
OutputEntryPoints ==
  {e \in EntryPoints :
     \/ Outs(e) # {}
     \/ e.ret = "handle" /\ e.hargs = <<>>
          /\ \E f \in EntryPoints : Outs(f) # {} /\ f.inst # "" /\ IsA(e.rtype, f.inst)}

NextOutputs ==
  \/ Tick(MaxCalls) /\ (\E ep \in OutputEntryPoints : CallNew(ep))
        /\ UNCHANGED <<misuse, threads, caller>>
  \/ Tick(MaxCalls) /\ (\E ep \in OutputEntryPoints : CallFactory(ep))
        /\ UNCHANGED <<misuse, threads, caller>>
  \/ Tick(MaxCalls) /\ (\E ep \in OutputEntryPoints : CallMethod(ep) /\ NativeWrites(ep))
        /\ UNCHANGED <<misuse, threads, alias, snap, prev>>

SpecOutputs == Init /\ [][NextOutputs]_vars

(***************************************************************************)
(* Plain value structs passed to and returned by the entry points.         *)
(***************************************************************************)

(* Whether the value parameter of a setter points to a struct of the       *)
(* caller (const cv::Point2f* val) or is the value itself (float val).     *)
TakesStruct(ep) == ep.params # <<>> /\ <<ep.name, ep.params[1]>> \in ValueParameters

(* A fault: the setter keeps the caller's pointer in place of the value.   *)
RetainedPointer(ep) == {ep.callee}

(* The fields that still refer to the caller's struct after the setter has *)
(* returned: `instance->pt = *val;` assigns the pointee, a copy.           *)
Retained(ep) == {}

(* instance->field = *val (or val); return Ok();                           *)
SetValue(ep) ==
  /\ CallSetField(ep)
  /\ TakesStruct(ep) => res'.passed = <<mem[1]>>
  /\ alias' = [alias EXCEPT ![res'.inst] =
                 (@ \ {ep.callee}) \cup (IF TakesStruct(ep) THEN Retained(ep) ELSE {})]
  /\ UNCHANGED <<mem, left, snap, prev>>

(* T ret = instance->field, or the native operation's result; Ok(ret)      *)
(* carries the value, which the caller takes out of the envelope.          *)
ReadValue(ep) ==
  /\ ep.ret = "value"
  /\ CallGetField(ep) \/ CallMethod(ep)
  /\ snap' = IF res'.tag = "ok" THEN res'.value ELSE snap
  /\ UNCHANGED <<mem, left, alias, prev>>

(* The caller assigns to the struct it passed a pointer to; a field that   *)
(* referred to the struct would change with it.                            *)
CallerWrites ==
  /\ \E v \in Vals \ {mem[1]} :
       /\ mem' = [mem EXCEPT ![1] = v]
       /\ store' = [a \in Addr |->
                      [f \in DOMAIN store[a] |-> IF f \in alias[a] THEN v ELSE store[a][f]]]
  /\ UNCHANGED <<live, cell, held, ncalls, res, misuse, threads, left, alias, snap, prev>>

(* The entry points that take or return a value struct, the other          *)
(* accessors of the same objects, and the constructors of those objects.   *)
ValueTypes == {e.inst : e \in {x \in EntryPoints : x.name \in StructResults \/ TakesStruct(x)}} \ {""}

ValueEntryPoints ==
  {e \in EntryPoints :
     \/ e.name \in StructResults
     \/ TakesStruct(e) /\ e.hargs = <<>> /\ e.inst \in ValueTypes
     \/ e.inst \in ValueTypes /\ (e.prop \in RacingProps \/ IsSetter(e))
     \/ e.ret = "handle" /\ e.hargs = <<>> /\ e.rtype \in ValueTypes}

NextValues ==
  \/ Tick(MaxObjectCalls) /\ (\E ep \in ValueEntryPoints : CallNew(ep))
        /\ UNCHANGED <<misuse, threads, caller>>
  \/ Tick(MaxObjectCalls) /\ (\E ep \in ValueEntryPoints : CallFactory(ep))
        /\ UNCHANGED <<misuse, threads, caller>>
  \/ Tick(MaxObjectCalls) /\ (\E ep \in ValueEntryPoints : SetValue(ep))
        /\ UNCHANGED <<misuse, threads>>
  \/ Tick(MaxObjectCalls) /\ (\E ep \in ValueEntryPoints : ReadValue(ep))
        /\ UNCHANGED <<misuse, threads>>
  \/ Tick(MaxObjectCalls) /\ (\E ep \in ValueEntryPoints : ep.ret # "value" /\ CallMethod(ep))
        /\ UNCHANGED <<misuse, threads, caller>>
  \/ CallerWrites

SpecValues == Init /\ [][NextValues]_vars

(***************************************************************************)
(* A caller that keeps what the call before the last returned, to compare  *)
(* two calls in a row.                                                     *)
(***************************************************************************)

(* The caller sets the last call and its result aside before the next one  *)
(* returns.                                                                *)
KeepsLast ==
  /\ prev' = [ep |-> res.ep, act |-> res.act, inst |-> res.inst, passed |-> res.passed,
              tag |-> res.tag, value |-> res.value]
  /\ UNCHANGED <<misuse, threads, mem, left, alias, snap>>

(* The classes with getProp and setProp entry points, and the entry points *)
(* that make, read, write and destroy their objects.                       *)
FieldTypes == {e.inst : e \in {x \in EntryPoints : x.act = "getfield"}}

FieldEntryPoints ==
  {e \in EntryPoints :
     \/ e.act \in {"getfield", "setfield"}
     \/ e.act = "new" /\ e.rtype \in FieldTypes /\ e.hargs = <<>>
     \/ e.act = "delete" /\ e.atype \in FieldTypes}

NextRepeat ==
  \/ Tick(MaxObjectCalls) /\ (\E ep \in FieldEntryPoints : CallNew(ep)) /\ KeepsLast
  \/ Tick(MaxObjectCalls) /\ (\E ep \in FieldEntryPoints : CallDelete(ep)) /\ KeepsLast
  \/ Tick(MaxObjectCalls) /\ (\E ep \in FieldEntryPoints : CallGetField(ep)) /\ KeepsLast
  \/ Tick(MaxObjectCalls) /\ (\E ep \in FieldEntryPoints : CallSetField(ep)) /\ KeepsLast

SpecRepeat == Init /\ [][NextRepeat]_vars

(***************************************************************************)
(* Objects shared through cv::Ptr arguments: the selective search          *)
(* segmentation, its strategies and graph segmentations.                   *)
(***************************************************************************)

(* The classes that keep the cv::Ptr arguments they are given, and the     *)
(* classes of those arguments.                                             *)
Owners == {e.inst : e \in {x \in EntryPoints : x.callee \in ClearOps}}

Shared ==
  UNION {{e.hargs[i][2] : i \in 1..Len(e.hargs)} :
           e \in {x \in EntryPoints : x.inst \in Owners \/ x.rtype \in Owners}}

SharedEntryPoints ==
  {e \in EntryPoints :
     /\ Len(e.hargs) <= MaxSharedArgs
     /\ \/ e.inst \in Owners /\ (e.hargs # <<>> \/ e.callee \in ClearOps)
        \/ e.wrap = "Ptr" /\ e.rtype \in Owners
        \/ e.wrap = "Ptr" /\ e.hargs = <<>> /\ \E t \in Shared : IsA(e.rtype, t)}

SharedDestroy ==
  {d \in TypesHppDestroy : \E e \in SharedEntryPoints : e.wrap = "Ptr" /\ e.rtype = d.atype}

NextShared ==
  \/ Step(MaxSharedCalls) /\ \E ep \in SharedEntryPoints : CallFactory(ep)
  \/ Step(MaxSharedCalls) /\ \E ep \in SharedEntryPoints : CallMethod(ep)
  \/ Step(MaxSharedCalls) /\ \E d \in SharedDestroy : CallTypesDelete(d)

SpecShared == Init /\ [][NextShared]_vars

(***************************************************************************)
(* Two threads of the caller, each calling on handles of its choice, the   *)
(* caller keeping the result of the call that completed before the last.   *)
(***************************************************************************)

PairProps == {"angle", "class_id", "numOfOctave_"}

PairEntryPoints ==
  {e \in EntryPoints :
     \/ e.act \in {"getfield", "setfield"} /\ e.prop \in PairProps
     \/ e.act = "new" /\ e.rtype \in FieldTypes /\ e.hargs = <<>>}

NextPair ==
  \/ Tick(MaxPairCalls) /\ \E t \in Threads, ep \in PairEntryPoints : Begin(t, ep)
  \/ \E t \in Threads : Invoke(t)
  \/ \E t \in Threads :
       /\ CompleteCall(t)
       /\ prev' = [ep |-> res.ep, act |-> res.act, inst |-> res.inst, passed |-> res.passed,
                   tag |-> res.tag, value |-> res.value]
       /\ UNCHANGED <<mem, left, alias, snap>>
  \/ \E t \in Threads : Leave(t)

SpecPair == Init /\ [][NextPair]_vars

(***************************************************************************)
(* A caller that passes null pointers.                                     *)
(***************************************************************************)

(* A fault: the body tests its pointers first and throws on a null one.    *)
ChecksNullFirst(ep) == TRUE

(* Whether the body tests a pointer before it uses it: neither file holds  *)
(* an `if`, a comparison with a null pointer or a cast; the one statement  *)
(* that does the work names `instance->` and `*name` directly.             *)
ChecksNull(ep) == FALSE

(* Where a null pointer meets a dereference: `instance` of every entry     *)
(* point that has one, other than `delete instance`, and the parameters    *)
(* forwarded as `*name`.  (The cv::Point2f of setPropPt is modelled by its *)
(* value, so a null `val` is not among them.)                              *)
NullPositions(ep) ==
  (IF ep.inst # "" /\ ep.act # "delete" THEN {"instance"} ELSE {})
  \cup {p \in {ep.params[i] : i \in 1..Len(ep.params)} :
          <<ep.name, p>> \in Dereferenced /\ ep.act # "setfield" /\ ~IsSetter(ep)}

(* The parameters that are handles of this layer.                          *)
HandleName(ep, i) == CHOOSE p \in {ep.params[j] : j \in 1..Len(ep.params)} :
                        <<ep.name, i, p>> \in HandleParameters
HandleNames(ep) == {HandleName(ep, i) : i \in 1..Len(ep.hargs)}

(* The arguments of a call in which the parameter p is null: a live handle *)
(* for every other handle parameter.                                       *)
HandleArgsWithNull(ep, p) ==
  {hs \in [1..Len(ep.hargs) -> Addr \cup {NULL}] :
     \A i \in 1..Len(ep.hargs) :
       IF HandleName(ep, i) = p THEN hs[i] = NULL ELSE hs[i] \in Handles(ep.hargs[i])}

ForwardWithNull(ep, p) ==
  [i \in 1..Len(ep.fwd) |->
     IF ep.fwd[i] = p /\ p \notin HandleNames(ep) THEN NULL
     ELSE Position(ep.params, ep.fwd[i])]

(* The object and the handle a handle-returning body makes when its native *)
(* operation returns.                                                      *)
Made(ep) ==
  LET a == Fresh(live)
      b == IF a = NULL THEN NULL ELSE Fresh(live \cup {a})
  IN  [obj |-> a, handle |-> IF ep.wrap = "Ptr" THEN b ELSE a]

(* An entry point called with a null pointer as `instance` or as one of    *)
(* the pointers it forwards as `*name`.  The dereference of a null pointer *)
(* is undefined: the platform stops the program, or the native operation   *)
(* runs on whatever address 0 gives it and returns or throws.              *)
CallNull(ep) ==
  /\ ub = ""
  /\ \E p \in NullPositions(ep), out \in UndefinedOutcomes(ep),
        v \in (IF ep.ret = "value" THEN UndefinedValues ELSE {NULL}) :
     \E inst \in (IF p = "instance" \/ ep.inst = "" THEN {NULL} ELSE Instances(ep.inst)),
        hs \in HandleArgsWithNull(ep, p) :
       LET passed == ForwardWithNull(ep, p)
           m == Made(ep)
           made == ep.ret = "handle" /\ out = "returned" /\ m.handle # NULL
           native == IF ep.ret = "handle" /\ out = "returned" /\ m.handle = NULL
                     THEN "std::exception" ELSE out
       IN  IF ChecksNull(ep)
           THEN /\ ub' = ub
                /\ res' = Return(ep, "cv::Exception", "returned", inst, hs, passed, NULL, <<>>)
                /\ UNCHANGED <<live, cell, held, store>>
           ELSE /\ ub' = "null dereference"
                /\ res' = IF native = "crashed"
                          THEN \* a signal is no C++ exception: no catch arm runs
                               Called(ep, native, "returned", inst, hs, passed, NoEnvelope)
                          ELSE Return(ep, native, "returned", inst, hs, passed,
                                      IF made THEN m.handle ELSE NULL,
                                      IF ep.ret = "value" /\ native = "returned"
                                      THEN <<v>> ELSE <<>>)
                /\ IF made
                   THEN Commit(live \cup {m.obj, m.handle},
                               [cell EXCEPT
                                  ![m.obj] = [mode |-> IF ep.wrap = "Ptr" THEN "obj" ELSE
                                                       IF ep.wrap = "Mat" THEN "mat" ELSE "raw",
                                              type |-> ep.rtype, tgt |-> NULL],
                                  ![m.handle] = IF ep.wrap = "Ptr"
                                                THEN [mode |-> "box", type |-> ep.rtype, tgt |-> m.obj]
                                                ELSE @],
                               held,
                               [store EXCEPT ![m.obj] = IF ep.wrap = "Mat" THEN @
                                                         ELSE InitProps(ep.rtype)])
                   ELSE UNCHANGED <<live, cell, held, store>>
  /\ UNCHANGED <<stale>>

(* A fault: the body runs the destructor through the pointer               *)
(* (instance->~T()) and then frees the memory.                             *)
DestructorCalledThroughPointer(ep) == FALSE

(* Whether `delete instance` with a null `instance` does nothing: a        *)
(* delete-expression on a null pointer calls no destructor and frees       *)
(* nothing.                                                                *)
DeleteOfNullIsNoOp(ep) == TRUE

(* void cv_T_delete(T* instance) { delete instance; } with instance null.  *)
CallDeleteNull(ep) ==
  /\ ub = ""
  /\ ep.act = "delete"
  /\ ub' = IF DeleteOfNullIsNoOp(ep) THEN ub ELSE "null dereference"
  /\ res' = Return(ep, "returned", "returned", NULL, <<>>, <<>>, NULL, <<>>)
  /\ UNCHANGED <<live, cell, held, store, stale>>

(* A call that keeps to the contract, made by a caller that may also pass  *)
(* null.                                                                   *)
DefinedCall(n) == Defined(n) /\ UNCHANGED stale

NextNull ==
  \/ DefinedCall(MaxCalls) /\ \E ep \in EntryPoints : CallNew(ep)
  \/ DefinedCall(MaxCalls) /\ \E ep \in EntryPoints : CallFactory(ep)
  \/ DefinedCall(MaxCalls) /\ \E ep \in EntryPoints : CallDelete(ep)
  \/ DefinedCall(MaxCalls) /\ \E ep \in EntryPoints : CallGetField(ep)
  \/ DefinedCall(MaxCalls) /\ \E ep \in EntryPoints : CallSetField(ep)
  \/ DefinedCall(MaxCalls) /\ \E ep \in EntryPoints : CallMethod(ep)
  \/ Tick(MaxCalls) /\ (\E ep \in EntryPoints : CallNull(ep)) /\ UNCHANGED <<threads, caller>>
  \/ Tick(MaxCalls) /\ (\E ep \in EntryPoints : CallDeleteNull(ep)) /\ UNCHANGED <<threads, caller>>

SpecNull == Init /\ [][NextNull]_vars
(***************************************************************************)
(* Properties.                                                             *)
(***************************************************************************)

(* Every entry point a call can name, those defined outside the two files  *)
(* included, and the one the last call named.                              *)
AllEntryPoints ==
  EntryPoints \cup {DestroyRecord(d) : d \in TypesHppDestroy} \cup {StereoMatcherFactory}

EntryPointOf(n) == CHOOSE e \in AllEntryPoints : e.name = n

Threw(r) == r.native \in Exceptions

(* C1: for every entry point whose body is try { ... } OCVRS_CATCH, when   *)
(* the native operation throws, the call returns an error-tagged envelope: *)
(* the exception does not leave the entry point and the envelope is not    *)
(* success-tagged.                                                         *)
C1_ThrowIsErrorTagged ==
  (Threw(res) /\ EntryPointOf(res.ep).guarded) =>
    (res.tag = "err" /\ res.tag # "ok" /\ ~res.escaped)

(* detect, a method of a constructed BinaryDescriptor, threw.              *)
C1_DetectThrew ==
  /\ res.ep = "cv_line_descriptor_BinaryDescriptor_detect_const_MatR_vector_KeyLine_R_const_MatR"
  /\ Threw(res)
  /\ res.tag = "err"

(* C2 as stated: every entry point, cv_*_delete included, returns an       *)
(* envelope tagged success or error and lets no failure out.               *)
C2_EveryCallReturnsEnvelope ==
  res.native # "notrun" => (res.tag \in {"ok", "err"} /\ ~res.escaped)

(* C2: every entry point other than the cv_*_delete ones returns an        *)
(* envelope tagged success or error and lets no failure out; a cv_*_delete *)
(* entry point is declared void and returns no envelope.                   *)
C2_EnvelopeUnlessDelete ==
  res.native # "notrun" =>
    IF res.act = "delete"
    THEN res.tag = "none"
    ELSE res.tag \in {"ok", "err"} /\ ~res.escaped

(* A BinaryDescriptorMatcher was constructed and its destroy entry point   *)
(* ran on it.                                                              *)
C2_DeleteRan ==
  res.ep = "cv_BinaryDescriptorMatcher_delete" /\ res.inst \in res.pre /\ res.inst \notin live

(* Exactly one arm of a returned envelope is populated.                    *)
OneArm(r) ==
  /\ r.tag = "ok" =>
       /\ r.code = "" /\ r.msg = ""
       /\ r.ret = "void" => (r.handle = NULL /\ r.value = <<>>)
       /\ r.ret = "value" => (r.handle = NULL /\ r.value # <<>>)
       /\ r.ret = "handle" => (r.handle # NULL /\ r.value = <<>>)
  /\ r.tag = "err" =>
       /\ r.handle = NULL /\ r.value = <<>>
       /\ r.code # "" /\ r.msg # ""

(* C3 as stated: one arm is populated, and the tag is success exactly when *)
(* the native operation returned normally.                                 *)
C3_OkIffNativeReturned ==
  res.tag \in {"ok", "err"} =>
    (OneArm(res) /\ (res.tag = "ok" <=> res.native = "returned"))

(* C3: every envelope has exactly one arm populated, and the tag is        *)
(* success exactly when the native operation returned normally and the     *)
(* allocation of the returned handle (new cv::Ptr<T>(ret), new             *)
(* cv::Mat(ret)) did not throw either.                                     *)
C3_OkIffNothingThrew ==
  /\ res.ret \in {"void", "value", "handle"} => res.tag \in {"ok", "err"}
  /\ res.tag \in {"ok", "err"} =>
       /\ OneArm(res)
       /\ res.tag = "ok" <=> (res.native = "returned" /\ res.wrapper = "returned")

(* The native factory returned and new cv::Ptr<T>(ret) then threw.         *)
C3_HandleAllocationThrew ==
  /\ res.ep = "cv_ximgproc_createAMFilter_double_double_bool"
  /\ res.native = "returned"
  /\ res.wrapper = "std::exception"
  /\ res.tag = "err"

(* C4: for every entry point that returns a value, when the native         *)
(* operation does not throw the envelope is success-tagged and carries the *)
(* value the native operation named by the entry point returns for the     *)
(* caller's arguments in the caller's order on the same object.            *)
C4_PayloadIsNativeValue ==
  (res.ret = "value" /\ res.native = "returned") =>
    LET ep == EntryPointOf(res.ep) IN
    /\ res.tag = "ok"
    /\ ep.callee = ep.encoded
    /\ res.passed = Tokens(ep)
    /\ res.value = IF ep.act = "getfield"
                   THEN <<store[res.inst][ep.callee]>>
                   ELSE NativeValue(ep, store, res.inst, Tokens(ep))

(* computeBadPixelPercent, a function of four arguments, returned.         *)
C4_ComputeBadPixelPercentReturned ==
  /\ res.ep = "cv_ximgproc_computeBadPixelPercent_const__InputArrayR_const__InputArrayR_Rect_int"
  /\ res.tag = "ok"
  /\ Len(res.passed) = Len(EntryPointOf(res.ep).params)
  /\ Len(res.passed) > 1

(* The last call read property p of the object it was given.               *)
Reads(r, e) == r.ret = "value" /\ e.prop # "" /\ r.native = "returned"

KeyLineSetters == {e \in EntryPoints : e.act = "setfield" /\ e.inst = "KeyLine"}

C6_ConstructDestroyRestores ==
  [][ (/\ res.ret = "handle" /\ res.tag = "ok"
       /\ ncalls' = ncalls + 1
       /\ res'.act = "delete" /\ res'.inst = res.handle)
      => (live' = res.pre /\ ~res'.escaped) ]_vars

(* A KeyLine was constructed and destroyed at once.                        *)
C6_KeyLineConstructedAndDestroyed ==
  res.ep = "cv_KeyLine_delete" /\ ncalls = MaxCalls /\ live = {}

RawDestroyable(t) == \E e \in EntryPoints : e.act = "delete" /\ e.atype = t
RawConstructible(t) ==
  \E e \in EntryPoints : e.ret = "handle" /\ e.wrap = "raw" /\ e.rtype = t
TypesHppDestroyable(m, t) == \E d \in TypesHppDestroy : d.mode = m /\ d.atype = t

HasDestroy(a) ==
  IF cell[a].mode = "raw" THEN RawDestroyable(cell[a].type)
  ELSE TypesHppDestroyable(cell[a].mode, cell[a].type)

(* C7 as stated: every handle an entry point returns has a destroy entry   *)
(* point, and every destroy entry point has a construction entry point     *)
(* for the handles it accepts.                                             *)
C7_EveryDestroyHasConstructor ==
  /\ \A a \in CallerHandles(live, cell) : HasDestroy(a)
  /\ \A e \in EntryPoints : e.act = "delete" => RawConstructible(e.atype)

(* C7: every raw handle an entry point returns has a cv_*_delete entry     *)
(* point in these files, every cv::Ptr<T>* and cv::Mat* handle has one     *)
(* among those of the type headers, and every cv_*_delete entry point has  *)
(* a construction entry point except cv_DrawLinesMatchesFlags_delete,      *)
(* whose type no entry point constructs.                                   *)
C7_PairedExceptDrawLinesMatchesFlags ==
  /\ \A a \in CallerHandles(live, cell) : HasDestroy(a)
  /\ \A e \in EntryPoints :
       e.act = "delete" => (RawConstructible(e.atype) <=> e.atype # "DrawLinesMatchesFlags")
  /\ RawDestroyable("DrawLinesMatchesFlags")

(* The caller holds a KeyLine the constructor returned.                    *)
C7_RawHandleReturned ==
  /\ res.ep = "cv_line_descriptor_KeyLine_KeyLine"
  /\ res.tag = "ok"
  /\ res.handle \in live

(* C8: a successful call that returns a handle returns a newly allocated   *)
(* one, distinct from every handle live before the call, and adds exactly  *)
(* that handle to the caller's live handles.                               *)
C8_ReturnedHandleIsNew ==
  (res.ret = "handle" /\ res.tag = "ok") =>
    /\ res.handle \notin res.pre
    /\ res.handle \in live
    /\ CallerHandles(live, cell) = CallerHandles(res.pre, cell) \cup {res.handle}
    /\ Cardinality(CallerHandles(live, cell)) = Cardinality(CallerHandles(res.pre, cell)) + 1

(* Two successful constructions in a row left two live handles.            *)
C8_TwoCallsTwoHandles ==
  /\ ncalls = MaxCalls
  /\ res.ret = "handle" /\ res.tag = "ok"
  /\ CallerHandles(res.pre, cell) # {}
  /\ Cardinality(CallerHandles(live, cell)) = ncalls

Boxes(o) == {b \in live : cell[b].mode = "box" /\ cell[b].tgt = o}
Keepers(o) == {w \in live : o \in held[w]}

(* C9 as stated: every live native object has exactly one holder, the      *)
(* caller's handle or a native object, never both.                         *)
C9_ExactlyOneHolder ==
  \A o \in live :
    /\ cell[o].mode = "raw" => Keepers(o) = {}
    /\ cell[o].mode = "obj" => Cardinality(Boxes(o) \cup Keepers(o)) = 1

(* C9: an object behind a raw handle is held by the caller alone; an       *)
(* object behind a cv::Ptr handle is reference counted: it is live while   *)
(* a handle of the caller or a native object holds it, and the handles     *)
(* passed to a call are still live after it and refer to the same object,  *)
(* whatever the receiving native object kept.                              *)
C9_RawExclusivePtrCounted ==
  /\ \A o \in live :
       /\ cell[o].mode = "raw" => Keepers(o) = {}
       /\ cell[o].mode = "obj" => Boxes(o) \cup Keepers(o) # {}
       /\ cell[o].mode = "box" => (cell[o].tgt \in live /\ cell[cell[o].tgt].mode = "obj")
  /\ (res.tag = "ok" /\ res.act # "delete") =>
       \A i \in 1..Len(res.args) : res.args[i] \in live

(* After a call that was passed a cv::Ptr handle, the object is held by    *)
(* the caller's handle and by the native object that received it.          *)
C9_SharedAfterPassing ==
  /\ res.tag = "ok" /\ Len(res.args) > 0
  /\ \E i \in 1..Len(res.args) :
       /\ res.args[i] \in live
       /\ cell[res.args[i]].mode = "box"
       /\ Keepers(cell[res.args[i]].tgt) # {}

(* C10: a handle of the caller leaves the live allocations only in a call  *)
(* of a destroy entry point on that handle; every other call leaves the    *)
(* handles it was passed, and the objects behind them, allocated.          *)
C10_OnlyDeleteFrees ==
  [][ \A a \in CallerHandles(live, cell) :
        /\ a \notin live' => (res'.act = "delete" /\ res'.inst = a)
        /\ a \in live' =>
             (cell'[a] = cell[a] /\ (cell[a].mode = "box" => cell[a].tgt \in live')) ]_vars

(* A call that was passed handles returned, and the handles are live.      *)
C10_ArgumentsStillLive ==
  /\ res.tag = "ok"
  /\ res.ep = "cv_ximgproc_createDisparityWLSFilter_Ptr_StereoMatcher_"
  /\ \A i \in 1..Len(res.args) : res.args[i] \in CallerHandles(live, cell)


(* The entry points that assign a property: the field setters and the      *)
(* setX of a native getX/setX pair.                                        *)
Setters == {e \in EntryPoints : e.act = "setfield" \/ (e.prop # "" /\ e.params # <<>>)}

(* C16: every setter returns Result_void; a getter fails only when the     *)
(* native operation throws; and the accessors that read or write a field   *)
(* directly return success on a live handle for every value, negative and  *)
(* zero included, the set leaving exactly the value given in the field.    *)
C16_FieldAccessorsAlwaysSucceed ==
  /\ \A e \in Setters : e.ret = "void"
  /\ (res.ret = "value" /\ res.tag = "err") => Threw(res)
  /\ res.act = "getfield" => (res.tag = "ok" /\ res.value # <<>>)
  /\ res.act = "setfield" =>
       /\ res.tag = "ok" /\ res.value = <<>> /\ res.handle = NULL
       /\ store[res.inst][EntryPointOf(res.ep).callee] = res.passed[1]

(* numOfPixels of a KeyLine was set to -1.                                  *)
C16_NegativeStored ==
  /\ res.ep = "cv_line_descriptor_KeyLine_setPropNumOfPixels_int"
  /\ res.passed = <<-1>>
  /\ res.tag = "ok"
  /\ store[res.inst]["numOfPixels"] = -1

(* The envelope of a call record.                                          *)
EnvelopeOf(r) ==
  [tag |-> r.tag, handle |-> r.handle, value |-> r.value, code |-> r.code, msg |-> r.msg]

OnReleased(r) == r.inst # NULL /\ r.inst \notin r.pre

(* C11: a destroy entry point releases the live handle it is given; a      *)
(* destroy, get, set or method call on a released handle is not stopped by *)
(* the layer: it goes on to free or dereference the released object, which *)
(* is undefined behaviour, and an error-tagged envelope comes back only    *)
(* when native code run on the released object threw, never from a         *)
(* destroy or a field accessor.                                            *)
C11_ReleasedHandleNotDetected ==
  /\ (res.act = "delete" /\ ~OnReleased(res)) => (res.inst \notin live /\ stale[res.inst] # "")
  /\ OnReleased(res) =>
       /\ ub \in {"double free", "use after free"}
       /\ ub = "double free" <=> res.act = "delete"
       /\ res.act \in {"delete", "getfield", "setfield"} => res.tag # "err"
       /\ res.tag = "err" => Threw(res)
  /\ ub # "" => OnReleased(res)

(* cv_KeyLine_delete ran a second time on the same handle.                 *)
C11_KeyLineDestroyedTwice ==
  /\ res.ep = "cv_KeyLine_delete"
  /\ OnReleased(res)
  /\ ub = "double free"

(* C12: a call starts the one native operation of its body once, never     *)
(* again after it has thrown, and returns to the caller only after that    *)
(* operation has completed, with the envelope of that one attempt.         *)
C12_SingleAttempt ==
  [][ \A t \in Threads :
        /\ cur'[t].invoked <= 1
        /\ pc[t] = "done" => pc'[t] \in {"done", "idle"}
        /\ (pc[t] # "idle" /\ pc'[t] = "idle") =>
             /\ pc[t] = "done"
             /\ cur[t].invoked = 1
             /\ res.ep = cur[t].ep /\ res.native # "notrun"
             /\ res' = res ]_vars

(* process threw and the call has returned, after one invocation.          *)
C12_ProcessFailedOnce ==
  /\ res.ep = "cv_ximgproc_segmentation_SelectiveSearchSegmentation_process_vector_Rect_R"
  /\ Threw(res) /\ res.tag = "err"
  /\ pc[1] = "idle"
  /\ cur[1].invoked = 1

(* C15: a thread that has entered an entry point is never made to wait,    *)
(* whatever another thread is doing on the same handle; when the work of   *)
(* two calls on one object overlaps and one of them writes it, nothing has *)
(* serialised them and the program has a data race.                        *)
C15_NoSerialisation ==
  /\ \A t \in Threads : (ub = "" /\ pc[t] = "try") => ENABLED Invoke(t)
  /\ ub = "data race" =>
       \E t \in Threads, u \in Threads :
         /\ t # u
         /\ pc[t] = "done" /\ pc[u] = "native"
         /\ cur[t].inst = cur[u].inst

(* setPropAngle and getPropAngle overlapped on one KeyLine.                *)
C15_SetAndGetRaced ==
  /\ ub = "data race"
  /\ \E t \in Threads, u \in Threads :
       /\ cur[t].inst = cur[u].inst
       /\ cur[t].ep = "cv_line_descriptor_KeyLine_setPropAngle_float"
       /\ cur[u].ep = "cv_line_descriptor_KeyLine_getPropAngle_const"

(* C13: after a call, on the success path and on the error path alike,     *)
(* every object of the caller passed as an output parameter holds what the *)
(* native operation left in that argument, and every other object of the   *)
(* caller holds what it held before the call; no output parameter goes     *)
(* through a temporary.                                                    *)
C13_OutputsAreWhatNativeLeft ==
  [][ /\ OutputParameters \cap CopiedParameters = {}
      /\ ncalls' = ncalls + 1 =>
        \E outs \in {Outs(EntryPointOf(res'.ep))} :
          mem' = [i \in 0..MaxParams |-> IF i \in outs THEN left'[i] ELSE mem[i]] ]_vars

(* detect wrote the caller's keypoints vector and then threw.              *)
C13_DetectWroteThenThrew ==
  /\ res.ep = "cv_line_descriptor_BinaryDescriptor_detect_const_MatR_vector_KeyLine_R_const_MatR"
  /\ Threw(res) /\ res.tag = "err"
  /\ left[2] = MaxVal
  /\ mem[2] = MaxVal

(* C17: a setter given a pointer to a struct of the caller stores the      *)
(* value the struct holds at the call and leaves the struct alone; when    *)
(* the caller changes the struct afterwards no field changes; a returned   *)
(* value, once taken from the envelope, is changed by no later call; and   *)
(* a get or set allocates and frees nothing.                               *)
C17_ValuesAreCopied ==
  [][ /\ (ncalls' = ncalls /\ mem' # mem) => store' = store
      /\ (ncalls' = ncalls + 1 /\ res'.act = "setfield" /\ TakesStruct(EntryPointOf(res'.ep))) =>
           /\ store'[res'.inst][EntryPointOf(res'.ep).callee] = mem[1]
           /\ mem' = mem
      /\ (ncalls' = ncalls + 1 /\ res'.ret = "value" /\ res'.tag = "ok") => snap' = res'.value
      /\ ~(ncalls' = ncalls + 1 /\ res'.ret = "value" /\ res'.tag = "ok") => snap' = snap
      /\ res'.act \in {"getfield", "setfield"} => live' = live ]_vars

(* pt of a KeyLine was set from the caller's struct holding MaxVal, and    *)
(* the caller has since changed the struct.                                *)
C17_StructChangedAfterSet ==
  /\ res.ep = "cv_line_descriptor_KeyLine_setPropPt_Point2f"
  /\ res.tag = "ok" /\ res.passed = <<MaxVal>>
  /\ mem[1] # MaxVal
  /\ store[res.inst]["pt"] = MaxVal

(* The native objects after a call, the objects no cv::Ptr holds any more  *)
(* released.                                                               *)
Swept(L, C, H, S) ==
  LET L2 == Sweep(L, C, H) IN
  [live |-> L2,
   cell |-> [a \in Addr |-> IF a \in L2 THEN C[a] ELSE NoCell],
   held |-> [a \in Addr |-> IF a \in L2 THEN H[a] ELSE {}],
   store |-> [a \in Addr |-> IF a \in L2 THEN S[a] ELSE NoProps]]

(* The envelope and the native objects after a call, as a function of the  *)
(* entry point ep, the call's arguments (r.inst, r.args, r.passed), what    *)
(* the native side chose to do (r.native, r.wrapper, the cv::Ptr copies it  *)
(* kept) and the native objects L, C, H, S before the call, and of nothing  *)
(* else.                                                                   *)
HistoryFree(ep, r, kept, L, C, H, S) ==
  LET a == Fresh(L)
      b == Fresh(L \cup {a})
      same == [live |-> L, cell |-> C, held |-> H, store |-> S]
      env(h, v) == IF ep.ret = "none" THEN NoEnvelope
                   ELSE IF r.native # "returned" THEN OCVRS_CATCH(r.native)
                   ELSE IF r.wrapper # "returned" THEN OCVRS_CATCH(r.wrapper)
                   ELSE Ok(h, v)
      H2 == IF r.inst = NULL THEN H
            ELSE [H EXCEPT ![r.inst] = IF ep.callee \in ClearOps THEN {} ELSE @ \cup kept]
      S2 == IF IsSetter(ep) THEN [S EXCEPT ![r.inst][ep.prop] = r.passed[1]] ELSE S
  IN  CASE r.native # "returned" \/ r.wrapper # "returned" ->
             [env |-> env(NULL, <<>>), heap |-> same]
        [] ep.act = "new" ->
             [env |-> env(a, <<>>),
              heap |-> Swept(L \cup {a},
                             [C EXCEPT ![a] = [mode |-> "raw", type |-> ep.rtype, tgt |-> NULL]],
                             [H EXCEPT ![a] = kept],
                             [S EXCEPT ![a] = InitProps(ep.rtype)])]
        [] ep.act = "call" /\ ep.wrap = "Ptr" ->
             [env |-> env(b, <<>>),
              heap |-> Swept(L \cup {a, b},
                             [C EXCEPT ![a] = [mode |-> "obj", type |-> ep.rtype, tgt |-> NULL],
                                       ![b] = [mode |-> "box", type |-> ep.rtype, tgt |-> a]],
                             [H EXCEPT ![a] = kept],
                             [S EXCEPT ![a] = InitProps(ep.rtype)])]
        [] ep.act = "call" /\ ep.wrap = "Mat" ->
             [env |-> env(a, <<>>),
              heap |-> Swept(L \cup {a},
                             [C EXCEPT ![a] = [mode |-> "mat", type |-> ep.rtype, tgt |-> NULL]],
                             H, S)]
        [] ep.act = "delete" ->
             [env |-> NoEnvelope, heap |-> Swept(L \ {r.inst}, C, H, S)]
        [] ep.act = "getfield" ->
             [env |-> env(NULL, <<S[r.inst][ep.callee]>>), heap |-> same]
        [] ep.act = "setfield" ->
             [env |-> env(NULL, <<>>),
              heap |-> [same EXCEPT !.store = [S EXCEPT ![r.inst][ep.callee] = r.passed[1]]]]
        [] OTHER ->
             [env |-> env(NULL, IF ep.ret = "value"
                                THEN NativeValue(ep, S, r.inst, r.passed) ELSE <<>>),
              heap |-> Swept(L, C, H2, S2)]

(* The cv::Ptr copies the native side kept in the call that led to H2.     *)
Kept(ep, r, L, H2) ==
  IF ep.ret = "handle" THEN (IF Fresh(L) = NULL THEN {} ELSE H2[Fresh(L)])
  ELSE IF r.inst = NULL \/ ep.act = "delete" THEN {}
  ELSE H2[r.inst]

OnNull(r) ==
  LET ep == EntryPointOf(r.ep) IN
  /\ r.act \notin {"", "delete"}
  /\ \/ ep.inst # "" /\ r.inst = NULL
     \/ \E i \in 1..Len(r.args) : r.args[i] = NULL
     \/ /\ r.act # "setfield" /\ ~IsSetter(ep)
        /\ \E i \in 1..Len(r.passed) :
             r.passed[i] = NULL /\ <<r.ep, ep.fwd[i]>> \in Dereferenced

(* C21: no entry point tests a pointer before it uses it: every handle     *)
(* parameter is forwarded as `*name`, and a call given a null `instance`   *)
(* or a null pointer argument is not answered by the layer: it reaches the *)
(* dereference, which is undefined behaviour, and an error-tagged envelope *)
(* comes back only when native code run on the null pointer threw, never   *)
(* from a field accessor.                                                  *)
C21_NullNotChecked ==
  /\ \A e \in EntryPoints : \A i \in 1..Len(e.hargs) :
       \E p \in {e.params[j] : j \in 1..Len(e.params)} :
         <<e.name, i, p>> \in HandleParameters /\ <<e.name, p>> \in Dereferenced
  /\ OnNull(res) =>
       /\ ub = "null dereference"
       /\ res.act \in {"getfield", "setfield"} => res.tag # "err"
       /\ res.tag = "err" => Threw(res)
  /\ ub # "" => (OnNull(res) \/ res.act = "delete")

(* getPropAngle was called with a null KeyLine and the program was         *)
(* stopped: no envelope came back.                                         *)
C21_GetAngleOfNull ==
  /\ res.ep = "cv_line_descriptor_KeyLine_getPropAngle_const"
  /\ res.inst = NULL
  /\ res.native = "crashed" /\ res.tag = "none"
  /\ ub = "null dereference"

(* C28: a cv_*_delete entry point given a null pointer returns normally    *)
(* and changes nothing: no allocation is freed, no object changes, and     *)
(* nothing undefined has happened; every other entry point given a null    *)
(* `instance` dereferences it.                                             *)
C28_DeleteOfNullChangesNothing ==
  [][ ncalls' = ncalls + 1 =>
        /\ (res'.act = "delete" /\ res'.inst = NULL) =>
             /\ UNCHANGED <<live, cell, held, store>>
             /\ ub' = ""
             /\ res'.native = "returned" /\ res'.tag = "none" /\ ~res'.escaped
        /\ (res'.act \notin {"", "delete"} /\ res'.inst = NULL
              /\ EntryPointOf(res'.ep).inst # "") => ub' = "null dereference" ]_vars

(* cv_DrawLinesMatchesFlags_delete was called with null while a handle was *)
(* live.                                                                   *)
C28_NullDeletedBesideLiveHandle ==
  /\ res.ep = "cv_DrawLinesMatchesFlags_delete"
  /\ res.inst = NULL
  /\ live # {} /\ live = res.pre
  /\ ub = ""

(* The field accessors of the layer.                                       *)
FieldAccessors == {e \in EntryPoints : e.act \in {"getfield", "setfield"}}

(* C22: every setProp* names the field its own name encodes, the field its *)
(* paired getProp* reads, and a call of it changes that field of that      *)
(* object and nothing else: every other field of the object and every      *)
(* field of every other object keep their values, and no allocation is     *)
(* made or freed.                                                          *)
C22_SetterChangesOnlyItsField ==
  [][ (ncalls' = ncalls + 1 /\ res'.act = "setfield") =>
        \E e \in {EntryPointOf(res'.ep)} :
          /\ e.callee = e.encoded
          /\ \A g \in FieldAccessors :
               (g.inst = e.inst /\ g.encoded = e.encoded) => g.callee = e.callee
          /\ UNCHANGED <<live, cell, held>>
          /\ \A a \in live : \A p \in DOMAIN store[a] :
               (a # res'.inst \/ p # e.encoded) => store'[a][p] = store[a][p] ]_vars

(* startPointX of one of two KeyLines was set: sPointInOctaveX of the same *)
(* KeyLine and every field of the other are as the constructor left them.  *)
C22_StartPointXSetAlone ==
  /\ res.ep = "cv_line_descriptor_KeyLine_setPropStartPointX_float"
  /\ res.tag = "ok"
  /\ store[res.inst]["startPointX"] = 1
  /\ store[res.inst]["sPointInOctaveX"] = NativeInit
  /\ \E a \in live \ {res.inst} : cell[a].type = "KeyLine" /\ store[a] = InitProps("KeyLine")

(* C23: a getProp* call on a live handle succeeds, changes no field of any *)
(* object and makes or frees no allocation; made right after the same      *)
(* getProp* on the same handle, it returns the same payload.               *)
C23_GettersReadOnlyRepeatable ==
  [][ (ncalls' = ncalls + 1 /\ res'.act = "getfield") =>
        /\ UNCHANGED <<live, cell, held, store>>
        /\ res'.tag = "ok"
        /\ res'.value = <<store[res'.inst][EntryPointOf(res'.ep).callee]>>
        /\ (res.ep = res'.ep /\ res.inst = res'.inst) => res'.value = res.value ]_vars

(* getPropNumOfOctave_ was called twice in a row on one Params whose       *)
(* in whatever state it was.                                              *)
C23_NumOfOctaveReadTwice ==
  /\ res.ep = "cv_line_descriptor_BinaryDescriptor_Params_getPropNumOfOctave__const"
  /\ prev.ep = res.ep /\ prev.inst = res.inst
  /\ prev.tag = "ok" /\ res.tag = "ok"
  /\ res.value = prev.value

(* C24: when an entry point that returns a handle returns an error-tagged  *)
(* envelope (the native constructor or factory threw, or the allocation of *)
(* the cv::Ptr or cv::Mat it hands out threw), the allocations and the     *)
(* objects are as before the call and the envelope carries no handle.      *)
C24_FailedConstructionLeavesNothing ==
  [][ (ncalls' = ncalls + 1 /\ res'.ret = "handle") =>
        /\ Threw(res') => res'.tag = "err"
        /\ res'.tag = "err" =>
             /\ UNCHANGED <<live, cell, held, store>>
             /\ res'.handle = NULL ]_vars

(* getConfidenceMap returned its cv::Mat and the allocation of the handle  *)
(* for it threw.                                                           *)
C24_ConfidenceMapHandleFailed ==
  /\ res.ep = "cv_ximgproc_DisparityWLSFilter_getConfidenceMap"
  /\ res.native = "returned" /\ res.wrapper = "std::exception"
  /\ res.tag = "err" /\ res.handle = NULL
  /\ live = res.pre /\ live # {}

(* C25: when a create* entry point returns success, the object it made is  *)
(* referred to by one cv::Ptr only, the one behind the returned handle;    *)
(* the destroy of that handle right after frees the object with it.        *)
C25_FactoryObjectHeldOnce ==
  [][ ncalls' = ncalls + 1 =>
        /\ (res'.act = "call" /\ res'.ret = "handle" /\ res'.tag = "ok"
              /\ EntryPointOf(res'.ep).wrap = "Ptr") =>
             /\ cell'[res'.handle].mode = "box"
             /\ cell'[cell'[res'.handle].tgt].mode = "obj"
             /\ Holders(cell'[res'.handle].tgt, live', cell', held') = {res'.handle}
        /\ (res.act = "call" /\ res.ret = "handle" /\ res.tag = "ok"
              /\ EntryPointOf(res.ep).wrap = "Ptr"
              /\ res'.act = "delete" /\ res'.inst = res.handle) =>
             /\ res.handle \notin live'
             /\ cell[res.handle].tgt \notin live' ]_vars

(* The handle createAMFilter returned was destroyed: the filter and the    *)
(* cv::Ptr are gone.                                                       *)
C25_AMFilterReleased ==
  /\ res.ep = "cv_PtrOfAdaptiveManifoldFilter_delete"
  /\ ncalls = 2
  /\ Cardinality(res.pre) = 2
  /\ live = {}

(* What refers to the object o: the cv::Ptr handles of the caller and the  *)
(* native objects that kept a cv::Ptr copy.                                *)
Referrers(o, L, C, H) ==
  {b \in L : C[b].mode = "box" /\ C[b].tgt = o} \cup {w \in L : o \in H[w]}

Stands(r) ==
  (r.tag = "ok" /\ r.inst \in live) =>
    /\ r.act = "getfield" => r.value = <<store[r.inst][EntryPointOf(r.ep).callee]>>
    /\ r.act = "setfield" => store[r.inst][EntryPointOf(r.ep).callee] = r.passed[1]

====
